---- MODULE Spec2Model ----
(***************************************************************************)
(* dwarfreflect: parameter names recovered from DWARF debug information    *)
(* and the name-based invocation layer built on them.                      *)
(*                                                                         *)
(* Strings are sequences of tokens (single characters, or identifier       *)
(* fragments that contain none of the characters the code inspects), so    *)
(* that prefix tests, splitting and capitalisation are computed, not       *)
(* assumed.  Go slices and argument lists are 1-based sequences here: the  *)
(* Go index i is the position i+1.                                         *)
(***************************************************************************)
EXTENDS Integers, Sequences, FiniteSets, TLC

VARIABLES executable, resolverOnce, onceM, globalResolver, resolverInitErr, builds, fn, last, callers

vars == <<executable, resolverOnce, onceM, globalResolver, resolverInitErr, builds, fn, last, callers>>

\* Longest argument list, and largest map, a caller supplies.
MaxArgs == 4

\* Goroutines that use the package at the same time.
NumCallers == 2

\* Longest list of formal-parameter records under one subprogram.
MaxFormals == 3

\* Longest file handed to DetectExecutableFormat, in bytes.
MaxFileLen == 4

\* Longest identifier handed to generateFunctionKeyCandidates, in tokens.
MaxIdLen == 4

\* Most children a subprogram record has in the debug trees tried.
MaxChildren == 3

\* Most fields of the struct types handed to structTypesCompatible.
MaxFields == 2

-----------------------------------------------------------------------------
(* Sequences and strings *)

Range(s) == {s[i] : i \in 1..Len(s)}

SeqsUpTo(S, n) == UNION {[1..k -> S] : k \in 0..n}

\* strings.HasPrefix
HasPrefix(s, p) == Len(s) >= Len(p) /\ SubSeq(s, 1, Len(p)) = p

\* strings.Contains
Contains(s, p) == \E i \in 1..(Len(s) + 1) : i + Len(p) - 1 <= Len(s) /\ SubSeq(s, i, i + Len(p) - 1) = p

\* strings.LastIndex for a one-character separator; 0 stands for Go's -1
\* and position i for Go's index i-1.
LastIndex(s, c) == IF \E i \in 1..Len(s) : s[i] = c THEN CHOOSE i \in 1..Len(s) : s[i] = c /\ \A j \in (i + 1)..Len(s) : s[j] # c ELSE 0

\* strings.Index for a one-character separator, same convention.
Index(s, c) == IF \E i \in 1..Len(s) : s[i] = c THEN CHOOSE i \in 1..Len(s) : s[i] = c /\ \A j \in 1..(i - 1) : s[j] # c ELSE 0

ToUpperTable == [a |-> "A", b |-> "B", c |-> "C", d |-> "D", e |-> "E", f |-> "F", g |-> "G", h |-> "H", i |-> "I", j |-> "J", k |-> "K", l |-> "L", m |-> "M", n |-> "N", o |-> "O", p |-> "P", q |-> "Q", r |-> "R", s |-> "S", t |-> "T", u |-> "U", v |-> "V", w |-> "W", x |-> "X", y |-> "Y", z |-> "Z"]

\* unicode.ToUpper
ToUpper(c) == IF c \in DOMAIN ToUpperTable THEN ToUpperTable[c] ELSE c

\* unicode.IsUpper
IsUpper(c) == \E k \in DOMAIN ToUpperTable : ToUpperTable[k] = c

capitalizeFirst(s) == IF s = <<>> THEN s ELSE <<ToUpper(s[1])>> \o Tail(s)

-----------------------------------------------------------------------------
(* Types and values, as reflect sees them *)

BasicType(kind, name) == [kind |-> kind, name |-> name, fields |-> <<>>]

StringT == BasicType("string", "string")
IntT == BasicType("int", "int")
\* reflect.TypeOf((*context.Context)(nil)).Elem()
contextType == BasicType("interface", "context.Context")
backgroundCtxT == BasicType("struct", "context.backgroundCtx")
todoCtxT == BasicType("struct", "context.todoCtx")
\* The untyped nil interface carries no type at all.
NoType == BasicType("invalid", "")

StructField(name, type, tag) == [Name |-> name, Type |-> type, Tag |-> tag]

\* reflect.StructOf: identical field lists give the identical type.
StructOf(fields) == [kind |-> "struct", name |-> "", fields |-> fields]

PtrTo(structType) == [kind |-> "ptr", name |-> "", fields |-> structType.fields]

FuncOf(in) == [kind |-> "func", name |-> "", fields |-> [i \in 1..Len(in) |-> StructField(<<>>, in[i], <<>>)]]

\* reflect.Type.AssignableTo: identical types, or a type implementing the
\* interface it is assigned to.
AssignableTo(t1, t2) == t1 = t2 \/ (t2 = contextType /\ t1 \in {backgroundCtxT, todoCtxT})

Scalar(type, val) == [type |-> type, val |-> val, fields |-> <<>>]

NilIface == Scalar(NoType, "nil")
StrA == Scalar(StringT, "a")
Int1 == Scalar(IntT, "1")
Int2 == Scalar(IntT, "2")
CtxBg == Scalar(backgroundCtxT, "bg")
CtxTodo == Scalar(todoCtxT, "todo")

\* What a caller can put in an argument list or a map.
Values == {StrA, Int1, Int2, CtxBg, NilIface}

\* What a caller can pass as the context of a context-qualified call.
Contexts == {CtxBg, CtxTodo, NilIface}

\* A reflect.Value: the zero Value is invalid and has no type.
ZeroValue == [valid |-> FALSE, typ |-> NoType, v |-> NilIface]

ValueOf(x) == IF x = NilIface THEN ZeroValue ELSE [valid |-> TRUE, typ |-> x.type, v |-> x]

\* reflect.Value.Elem of a pointer: the zero Value for a nil pointer.
Elem(rv) == IF rv.v.val = "nil" THEN ZeroValue ELSE [valid |-> TRUE, typ |-> StructOf(rv.typ.fields), v |-> [type |-> StructOf(rv.typ.fields), val |-> "", fields |-> rv.v.fields]]

\* reflect.Value.FieldByName: a Value of the field's declared type holding
\* the field's content; the zero Value when no field has that name.
FieldByName(rv, name) == IF \E i \in 1..Len(rv.typ.fields) : rv.typ.fields[i].Name = name THEN LET i == CHOOSE i \in 1..Len(rv.typ.fields) : rv.typ.fields[i].Name = name IN [valid |-> TRUE, typ |-> rv.typ.fields[i].Type, v |-> rv.v.fields[i]] ELSE ZeroValue

-----------------------------------------------------------------------------
(* The functions of the program and the executable they are compiled into *)

NameOf == [name |-> <<"n", "a", "m", "e">>, age |-> <<"a", "g", "e">>, x |-> <<"x">>, y |-> <<"y">>, ctx |-> <<"c", "t", "x">>, id |-> <<"i", "d">>, ctx1 |-> <<"c", "t", "x", "1">>, data |-> <<"d", "a", "t", "a">>, ctx2 |-> <<"c", "t", "x", "2">>, num |-> <<"n", "u", "m">>, r0 |-> <<"~", "r", "0">>, r1 |-> <<"~", "r", "1">>, extra |-> <<"e", "x", "t", "r", "a">>]

PkgPrefix == <<"github", ".", "com", "/", "matteo-grella", "/", "dwarfreflect", ".">>

\* The callables the program wraps: code pointer, runtime name, declared
\* parameter types, and the formal-parameter records the compiler emits
\* (inputs, then return slots).
TestFuncs == <<
    [pc |-> "testFunc1", name |-> PkgPrefix \o <<"testFunc1">>, in |-> <<StringT, IntT>>, formals |-> <<NameOf.name, NameOf.age, NameOf.r0>>],
    [pc |-> "testFunc2", name |-> PkgPrefix \o <<"testFunc2">>, in |-> <<IntT, IntT>>, formals |-> <<NameOf.x, NameOf.y, NameOf.r0>>],
    [pc |-> "testFunc3", name |-> PkgPrefix \o <<"testFunc3">>, in |-> <<>>, formals |-> <<NameOf.r0>>],
    [pc |-> "testFunc4", name |-> PkgPrefix \o <<"testFunc4">>, in |-> <<contextType, IntT, StringT>>, formals |-> <<NameOf.ctx, NameOf.id, NameOf.name, NameOf.r0, NameOf.r1>>],
    [pc |-> "testFunc6", name |-> PkgPrefix \o <<"testFunc6">>, in |-> <<contextType, StringT, contextType>>, formals |-> <<NameOf.ctx1, NameOf.data, NameOf.ctx2, NameOf.r0>>] >>

\* The example of the specification's testable properties: context at Go
\* positions 0 and 2, caller-relevant parameters at 1 and 3.
SpliceFunc == [pc |-> "spliceFunc", name |-> PkgPrefix \o <<"spliceFunc">>, in |-> <<contextType, StringT, contextType, IntT>>, formals |-> <<NameOf.ctx1, NameOf.data, NameOf.ctx2, NameOf.num, NameOf.r0>>]

FuncList == Append(TestFuncs, SpliceFunc)

Funcs == Range(FuncList)

FuncByPC(pc) == CHOOSE f \in Funcs : f.pc = pc

\* A func value as the program holds it.
FuncValue(f) == Scalar(FuncOf(f.in), f.pc)

\* A debug record as the DWARF reader hands it over; Tag "Null" is the
\* end-of-children marker (Tag 0) and Tag "Err" a failing read.
Entry(tag, hasName, name, children) == [Tag |-> tag, HasName |-> hasName, Name |-> name, Children |-> children]

RECURSIVE FormalEntries(_)
FormalEntries(names) == IF names = <<>> THEN <<>> ELSE <<Entry("FormalParameter", TRUE, Head(names), FALSE)>> \o FormalEntries(Tail(names))

RECURSIVE SubprogramEntries(_)
SubprogramEntries(fs) == IF fs = <<>> THEN <<>> ELSE <<Entry("Subprogram", TRUE, Head(fs).name, TRUE)>> \o FormalEntries(Head(fs).formals) \o <<Entry("Null", FALSE, <<>>, FALSE)>> \o SubprogramEntries(Tail(fs))

\* The debug records of the test binary: one compile unit holding a
\* subprogram per function.
TestBinaryEntries == <<Entry("CompileUnit", TRUE, <<"dwarfreflect">>, TRUE)>> \o SubprogramEntries(FuncList) \o <<Entry("Null", FALSE, <<>>, FALSE)>>

ELFMagic == <<127, 69, 76, 70>>

\* An executable file: whether os.Executable finds it, its bytes, and its
\* debug section.
File(pathOK, bytes, hasDWARF, entries) == [pathOK |-> pathOK, bytes |-> bytes, hasDWARF |-> hasDWARF, entries |-> entries]

Executables == {
    File(TRUE, ELFMagic, TRUE, TestBinaryEntries),
    File(TRUE, ELFMagic, FALSE, <<>>),
    File(TRUE, <<35, 33, 47, 98>>, FALSE, <<>>),
    File(FALSE, <<>>, FALSE, <<>>) }

\* What the debug section says of one function: the identifier of its
\* subprogram record and the names of its formal-parameter records.
DebugView(name, formals) == [name |-> name, formals |-> formals]

\* The identifier testFunc1 has at run time, and its last path element.
FullKey == TestFuncs[1].name

ShortKey == <<"dwarfreflect", ".", "testFunc1">>

\* Names a formal-parameter record can carry: parameter names, return
\* slots, the empty string.
RawNames == {NameOf.name, NameOf.age, NameOf.r0, NameOf.r1, <<>>}

RawLists == SeqsUpTo(RawNames, MaxFormals)

\* Debug sections of every content: one subprogram under the full or the
\* short identifier with any list, or both identifiers indexed.
DebugViews == {<<DebugView(FullKey, l)>> : l \in RawLists} \cup {<<DebugView(ShortKey, l)>> : l \in RawLists} \cup {<<DebugView(FullKey, l), DebugView(ShortKey, <<NameOf.x, NameOf.y, NameOf.r0>>)>> : l \in RawLists}

DebugBinaries == {File(TRUE, ELFMagic, TRUE, <<Entry("CompileUnit", TRUE, <<"dwarfreflect">>, TRUE)>> \o SubprogramEntries(v) \o <<Entry("Null", FALSE, <<>>, FALSE)>>) : v \in DebugViews}

-----------------------------------------------------------------------------
(* resolver.go *)

FormatUnknown == 0
FormatELF == 1
FormatPE == 2
FormatMachO == 3

\* file.Read into a four-byte buffer: the bytes read, zero-padded.
ReadMagic(bytes) == [i \in 1..4 |-> IF i <= Len(bytes) THEN bytes[i] ELSE 0]

DetectExecutableFormat(file) ==
    IF ~file.pathOK THEN [format |-> FormatUnknown, err |-> "open"]
    ELSE IF Len(file.bytes) = 0 THEN [format |-> FormatUnknown, err |-> "EOF"]
    ELSE LET magic == ReadMagic(file.bytes) IN
         IF magic = <<127, 69, 76, 70>> THEN [format |-> FormatELF, err |-> "nil"]
         ELSE IF magic[1] = 77 /\ magic[2] = 90 THEN [format |-> FormatPE, err |-> "nil"]
         ELSE IF magic \in {<<254, 237, 250, 206>>, <<206, 250, 237, 254>>, <<254, 237, 250, 207>>, <<207, 250, 237, 254>>} THEN [format |-> FormatMachO, err |-> "nil"]
         ELSE [format |-> FormatUnknown, err |-> "unknown executable format"]

\* reader.Next at position pos: "nil" past the last record, "err" on a
\* failing read (the reader keeps failing there), else the record.
ReaderNext(entries, pos) == IF pos > Len(entries) THEN "nil" ELSE IF entries[pos].Tag = "Err" THEN "err" ELSE "entry"

\* The names collected and the reader position the loop leaves behind.
RECURSIVE extractParametersFromDWARF(_, _, _)
extractParametersFromDWARF(entries, pos, paramNames) ==
    IF ReaderNext(entries, pos) # "entry" THEN [names |-> paramNames, pos |-> pos]
    ELSE LET entry == entries[pos] IN
         IF entry.Tag = "Null" THEN [names |-> paramNames, pos |-> pos + 1]
         ELSE IF entry.Tag = "FormalParameter" /\ entry.HasName THEN extractParametersFromDWARF(entries, pos + 1, Append(paramNames, entry.Name))
         ELSE extractParametersFromDWARF(entries, pos + 1, paramNames)

\* functionMap as a function from the indexed identifiers to their lists.
MapPut(m, k, v) == [x \in DOMAIN m \cup {k} |-> IF x = k THEN v ELSE m[x]]

EmptyMap == [x \in {} |-> <<>>]

\* The functionMap built by the linear pass; the pass itself reports no error.
RECURSIVE indexFunctions(_, _, _)
indexFunctions(entries, pos, functionMap) ==
    IF ReaderNext(entries, pos) # "entry" THEN functionMap
    ELSE LET entry == entries[pos] IN
         IF entry.Tag = "Subprogram" /\ entry.HasName /\ entry.Name # <<>> /\ entry.Children
         THEN LET got == extractParametersFromDWARF(entries, pos + 1, <<>>) IN indexFunctions(entries, got.pos, MapPut(functionMap, entry.Name, got.names))
         ELSE indexFunctions(entries, pos + 1, functionMap)

\* The resolver after loadDWARFData and the error it returns.
loadDWARFData(file, dr) ==
    IF ~file.pathOK THEN [dr |-> dr, err |-> "failed to get executable path"]
    ELSE LET det == DetectExecutableFormat(file) IN
         IF det.err # "nil" THEN [dr |-> dr, err |-> "failed to detect executable format"]
         ELSE IF det.format \notin {FormatELF, FormatPE, FormatMachO} THEN [dr |-> dr, err |-> "unsupported executable format"]
         ELSE IF ~file.hasDWARF THEN [dr |-> dr, err |-> "failed to extract DWARF"]
         ELSE [dr |-> [functionMap |-> indexFunctions(file.entries, 1, dr.functionMap), dwarfData |-> TRUE], err |-> "nil"]

NoResolver == [functionMap |-> EmptyMap, dwarfData |-> FALSE]

\* initResolver: the fresh resolver and the cached error.
initResolver(file) == loadDWARFData(file, [functionMap |-> EmptyMap, dwarfData |-> FALSE])

\* The text after the first "/" instead of the last.
LastPart_AfterFirstSlash(runtimeName) == SubSeq(runtimeName, Index(runtimeName, "/") + 1, Len(runtimeName))

\* strings.Split(runtimeName, "/"), last part.
LastPart(runtimeName) == SubSeq(runtimeName, LastIndex(runtimeName, "/") + 1, Len(runtimeName))

generateFunctionKeyCandidates(runtimeName) ==
    LET c1 == <<runtimeName>>
        c2 == IF Contains(runtimeName, <<"/">>) THEN Append(c1, LastPart(runtimeName)) ELSE c1
        lastDot == LastIndex(runtimeName, ".")
        beforeLast == SubSeq(runtimeName, 1, lastDot - 1)
        methodName == SubSeq(runtimeName, lastDot + 1, Len(runtimeName))
    IN IF Contains(runtimeName, <<".">>) /\ lastDot - 1 > 0 /\ Contains(beforeLast, <<"(", "*">>) THEN Append(c2, beforeLast \o <<".">> \o methodName) ELSE c2

\* The filtering loop: validParams after scanning inputParams from i on.
RECURSIVE validParamsFrom(_, _, _, _)
validParamsFrom(inputParams, i, paramCount, validParams) ==
    IF i > Len(inputParams) THEN validParams
    ELSE IF HasPrefix(inputParams[i], <<"~", "r">>) /\ (i - 1 >= paramCount \div 2) THEN validParams
    ELSE validParamsFrom(inputParams, i + 1, paramCount, Append(validParams, inputParams[i]))

\* The lookup handing back the filtered list whatever its length.
RECURSIVE discoverFrom_Filtered(_, _, _)
discoverFrom_Filtered(functionMap, candidates, paramCount) ==
    IF candidates = <<>> THEN [names |-> <<>>, err |-> "Cannot extract real parameter names"]
    ELSE LET candidate == Head(candidates) IN
         IF candidate \in DOMAIN functionMap /\ Len(functionMap[candidate]) >= paramCount
         THEN [names |-> validParamsFrom(SubSeq(functionMap[candidate], 1, paramCount), 1, paramCount, <<>>), err |-> "nil"]
         ELSE discoverFrom_Filtered(functionMap, Tail(candidates), paramCount)

\* The lookup cutting the last paramCount entries instead of the first.
RECURSIVE discoverFrom_LastEntries(_, _, _)
discoverFrom_LastEntries(functionMap, candidates, paramCount) ==
    IF candidates = <<>> THEN [names |-> <<>>, err |-> "Cannot extract real parameter names"]
    ELSE LET candidate == Head(candidates) IN
         IF candidate \in DOMAIN functionMap /\ Len(functionMap[candidate]) >= paramCount
         THEN [names |-> SubSeq(functionMap[candidate], Len(functionMap[candidate]) - paramCount + 1, Len(functionMap[candidate])), err |-> "nil"]
         ELSE discoverFrom_LastEntries(functionMap, Tail(candidates), paramCount)

\* The lookup giving up at the first candidate that is indexed, long
\* enough or not.
RECURSIVE discoverFrom_FirstPresentOnly(_, _, _)
discoverFrom_FirstPresentOnly(functionMap, candidates, paramCount) ==
    IF candidates = <<>> THEN [names |-> <<>>, err |-> "Cannot extract real parameter names"]
    ELSE LET candidate == Head(candidates) IN
         IF candidate \in DOMAIN functionMap
         THEN (IF Len(functionMap[candidate]) >= paramCount THEN [names |-> SubSeq(functionMap[candidate], 1, paramCount), err |-> "nil"] ELSE [names |-> <<>>, err |-> "Cannot extract real parameter names"])
         ELSE discoverFrom_FirstPresentOnly(functionMap, Tail(candidates), paramCount)

\* The lookup passing on to the next candidate when the filter has
\* dropped a name.
RECURSIVE discoverFrom_SkipsFiltered(_, _, _)
discoverFrom_SkipsFiltered(functionMap, candidates, paramCount) ==
    IF candidates = <<>> THEN [names |-> <<>>, err |-> "Cannot extract real parameter names"]
    ELSE LET candidate == Head(candidates) IN
         IF candidate \in DOMAIN functionMap /\ Len(functionMap[candidate]) >= paramCount /\ Len(validParamsFrom(SubSeq(functionMap[candidate], 1, paramCount), 1, paramCount, <<>>)) = paramCount
         THEN [names |-> SubSeq(functionMap[candidate], 1, paramCount), err |-> "nil"]
         ELSE discoverFrom_SkipsFiltered(functionMap, Tail(candidates), paramCount)

RECURSIVE discoverFrom(_, _, _)
discoverFrom(functionMap, candidates, paramCount) ==
    IF candidates = <<>> THEN [names |-> <<>>, err |-> "Cannot extract real parameter names"]
    ELSE LET candidate == Head(candidates) IN
         IF candidate \in DOMAIN functionMap /\ Len(functionMap[candidate]) >= paramCount
         THEN LET inputParams == SubSeq(functionMap[candidate], 1, paramCount)
                  validParams == validParamsFrom(inputParams, 1, paramCount, <<>>)
              IN IF Len(validParams) = paramCount THEN [names |-> validParams, err |-> "nil"]
                 ELSE IF Len(inputParams) = paramCount THEN [names |-> inputParams, err |-> "nil"]
                 ELSE discoverFrom(functionMap, Tail(candidates), paramCount)
         ELSE discoverFrom(functionMap, Tail(candidates), paramCount)

discoverParameterNames(dr, funcName, paramCount) == discoverFrom(dr.functionMap, generateFunctionKeyCandidates(funcName), paramCount)

extractPackagePath(funcName) ==
    LET lastSlash == LastIndex(funcName, "/") IN
    IF lastSlash = 0
    THEN (IF Contains(funcName, <<".">>) THEN SubSeq(funcName, 1, Index(funcName, ".") - 1) ELSE <<"main">>)
    ELSE LET remaining == SubSeq(funcName, lastSlash + 1, Len(funcName))
             firstDot == Index(remaining, ".")
         IN IF firstDot = 0 THEN funcName ELSE SubSeq(funcName, 1, lastSlash + firstDot - 1)

\* GetDWARFStatus after the gate.
GetDWARFStatus(dr, initErr) ==
    IF initErr # "nil" THEN [available |-> FALSE, funcCount |-> 0, err |-> initErr]
    ELSE IF ~dr.dwarfData THEN [available |-> FALSE, funcCount |-> 0, err |-> "DWARF debug information not available"]
    ELSE [available |-> TRUE, funcCount |-> Cardinality(DOMAIN dr.functionMap), err |-> "nil"]

\* The list of the first candidate the index holds; nil when it holds none.
RECURSIVE firstIndexed(_, _)
firstIndexed(functionMap, candidates) ==
    IF candidates = <<>> THEN <<>>
    ELSE IF Head(candidates) \in DOMAIN functionMap THEN functionMap[Head(candidates)]
    ELSE firstIndexed(functionMap, Tail(candidates))

\* Go index of the first name starting with "~r", len(allParams) when none.
inputEndIndex(allParams) == IF \E i \in 1..Len(allParams) : HasPrefix(allParams[i], <<"~", "r">>) THEN (CHOOSE i \in 1..Len(allParams) : HasPrefix(allParams[i], <<"~", "r">>) /\ \A j \in 1..(i - 1) : ~HasPrefix(allParams[j], <<"~", "r">>)) - 1 ELSE Len(allParams)

\* DebugDWARFParameters after the gate.
DebugDWARFParameters(dr, initErr, funcName) ==
    IF initErr # "nil" THEN [inputParams |-> <<>>, allParams |-> <<>>, err |-> initErr]
    ELSE LET allParams == firstIndexed(dr.functionMap, generateFunctionKeyCandidates(funcName)) IN
         IF Len(allParams) = 0 THEN [inputParams |-> <<>>, allParams |-> <<>>, err |-> "not found in DWARF data"]
         ELSE IF inputEndIndex(allParams) > 0 THEN [inputParams |-> SubSeq(allParams, 1, inputEndIndex(allParams)), allParams |-> allParams, err |-> "nil"]
         ELSE [inputParams |-> allParams, allParams |-> allParams, err |-> "nil"]

\* TestDWARFExtraction: a resolver of its own, loaded from the executable,
\* and the first record read once more.
TestDWARFExtraction(file) ==
    LET resolver == loadDWARFData(file, [functionMap |-> EmptyMap, dwarfData |-> FALSE]) IN
    IF DetectExecutableFormat(file).err # "nil" THEN [count |-> 0, err |-> "failed to get executable info"]
    ELSE IF resolver.err # "nil" THEN [count |-> 0, err |-> "DWARF extraction failed"]
    ELSE IF ~resolver.dr.dwarfData THEN [count |-> 0, err |-> "DWARF data is nil after extraction"]
    ELSE IF ReaderNext(file.entries, 1) = "err" THEN [count |-> 0, err |-> "failed to read DWARF entries"]
    ELSE IF ReaderNext(file.entries, 1) = "nil" THEN [count |-> 0, err |-> "no DWARF entries found"]
    ELSE [count |-> Cardinality(DOMAIN resolver.dr.functionMap), err |-> "nil"]

\* What GetAllDWARFFunctions hands back: the map, whether it is nil,
\* whether the map is the resolver's own, and the keys whose lists are the
\* resolver's own storage.
Dump(m, isNil, sharesMap, sharesLists) == [m |-> m, isNil |-> isNil, sharesMap |-> sharesMap, sharesLists |-> sharesLists]

\* GetAllDWARFFunctions handing out the lists of the index themselves.
GetAllDWARFFunctions_ShallowCopy(dr, initErr) ==
    IF initErr # "nil" THEN Dump(EmptyMap, FALSE, FALSE, {})
    ELSE Dump([k \in DOMAIN dr.functionMap |-> dr.functionMap[k]], FALSE, FALSE, DOMAIN dr.functionMap)

\* GetAllDWARFFunctions after the gate: a fresh map of fresh lists.
GetAllDWARFFunctions(dr, initErr) ==
    IF initErr # "nil" THEN Dump(EmptyMap, FALSE, FALSE, {})
    ELSE Dump([k \in DOMAIN dr.functionMap |-> [i \in 1..Len(dr.functionMap[k]) |-> dr.functionMap[k][i]]], FALSE, FALSE, {})

-----------------------------------------------------------------------------
(* function.go: types synthesized from a parameter list *)

\* reflect.StructOf aborts on a field that is not exported or not an
\* identifier, and on two fields of one name.
StructOfPanics(fields) == (\E i \in 1..Len(fields) : fields[i].Name = <<>> \/ ~IsUpper(fields[i].Name[1])) \/ (\E i, j \in 1..Len(fields) : i # j /\ fields[i].Name = fields[j].Name)

\* `json:"<name>" param:"<name>"`
DefaultTag(name) == <<"json:">> \o name \o <<" param:">> \o name

createStructType(paramNames, paramTypes) == StructOf([i \in 1..Len(paramNames) |-> StructField(capitalizeFirst(paramNames[i]), paramTypes[i], DefaultTag(paramNames[i]))])

\* StructOptions: a nil function is "nil"; "custom" stands for the namer
\* "Custom" + capitalizeFirst(name) and the tag builder `custom:"<name>"`.
StructOptions(fieldNamer, tagBuilder) == [FieldNamer |-> fieldNamer, TagBuilder |-> tagBuilder]

FieldNamerOf(opts, paramName) == IF opts.FieldNamer = "nil" THEN capitalizeFirst(paramName) ELSE <<"Custom">> \o capitalizeFirst(paramName)

TagOf(opts, paramName) == IF opts.TagBuilder = "nil" THEN <<>> ELSE <<"custom:">> \o paramName

\* createStructTypeFromParams falling back to the default tags when no tag
\* builder is given.
createStructTypeFromParams_DefaultTags(paramNames, paramTypes, opts) == StructOf([i \in 1..Len(paramNames) |-> StructField(FieldNamerOf(opts, paramNames[i]), paramTypes[i], IF opts.TagBuilder = "nil" THEN DefaultTag(paramNames[i]) ELSE TagOf(opts, paramNames[i]))])

createStructTypeFromParams(paramNames, paramTypes, opts) == StructOf([i \in 1..Len(paramNames) |-> StructField(FieldNamerOf(opts, paramNames[i]), paramTypes[i], TagOf(opts, paramNames[i]))])

\* The nil *Function.
NoFunction == [valid |-> FALSE, function |-> NilIface, paramNames |-> <<>>, paramTypes |-> <<>>, structType |-> NoType, funcName |-> <<>>, packagePath |-> <<>>]

\* Go positions (0-based) of the parameters declared context.Context.
GetContextPositions(t) == {i - 1 : i \in {j \in 1..Len(t.paramTypes) : t.paramTypes[j] = contextType}}

\* 1-based positions of the other parameters, ascending.
RECURSIVE NonContextIndexes(_, _)
NonContextIndexes(t, i) == IF i > Len(t.paramTypes) THEN <<>> ELSE (IF t.paramTypes[i] # contextType THEN <<i>> ELSE <<>>) \o NonContextIndexes(t, i + 1)

GetNonContextParameters(t) == LET idx == NonContextIndexes(t, 1) IN [names |-> [k \in 1..Len(idx) |-> t.paramNames[idx[k]]], types |-> [k \in 1..Len(idx) |-> t.paramTypes[idx[k]]]]

GetParameterInfo(t) == [names |-> t.paramNames, types |-> t.paramTypes]

GetStructType(t) == t.structType

GetStructTypeWithOptions(t, opts) == createStructTypeFromParams(t.paramNames, t.paramTypes, opts)

GetNonContextStructType(t) == LET p == GetNonContextParameters(t) IN createStructTypeFromParams(p.names, p.types, StructOptions("nil", "nil"))

GetNonContextStructTypeWithOptions(t, opts) == LET p == GetNonContextParameters(t) IN createStructTypeFromParams(p.names, p.types, opts)

\* The zero value of a type.
Zero(type) == IF type.kind = "interface" THEN NilIface ELSE IF type.kind = "string" THEN Scalar(type, "") ELSE Scalar(type, "0")

\* reflect.New(structType).Elem().Interface()
NewStruct(structType) == [type |-> structType, val |-> "", fields |-> [i \in 1..Len(structType.fields) |-> Zero(structType.fields[i].Type)]]

\* reflect.New(structType).Interface()
NewStructPtr(structType) == [type |-> PtrTo(structType), val |-> "&", fields |-> [i \in 1..Len(structType.fields) |-> Zero(structType.fields[i].Type)]]

\* opts is the variadic list: empty, or the options in its first place.
NewParams(t, opts) == NewStruct(IF Len(opts) > 0 THEN GetStructTypeWithOptions(t, opts[1]) ELSE t.structType)

NewParamsPtr(t, opts) == NewStructPtr(IF Len(opts) > 0 THEN GetStructTypeWithOptions(t, opts[1]) ELSE t.structType)

NewNonContextParams(t, opts) == NewStruct(IF Len(opts) > 0 THEN GetNonContextStructTypeWithOptions(t, opts[1]) ELSE GetNonContextStructType(t))

NewNonContextParamsPtr(t, opts) == NewStructPtr(IF Len(opts) > 0 THEN GetNonContextStructTypeWithOptions(t, opts[1]) ELSE GetNonContextStructType(t))

\* The comparison taking the tags into account as well.
structTypesCompatible_WithTags(t1, t2) == t1.kind = "struct" /\ t2.kind = "struct" /\ t1.fields = t2.fields

structTypesCompatible(t1, t2) ==
    IF t1.kind # "struct" \/ t2.kind # "struct" THEN FALSE
    ELSE IF Len(t1.fields) # Len(t2.fields) THEN FALSE
    ELSE \A i \in 1..Len(t1.fields) : t1.fields[i].Name = t2.fields[i].Name /\ t1.fields[i].Type = t2.fields[i].Type

-----------------------------------------------------------------------------
(* function.go: the invocation styles *)

NilResults == <<>>

\* What an operation hands back: it returns (results, err) or aborts;
\* invoked lists the argument lists the wrapped function was entered with.
Returned(results, err, invoked) == [outcome |-> "return", results |-> results, err |-> err, invoked |-> invoked]

Panicked == [outcome |-> "panic", results |-> NilResults, err |-> "nil", invoked |-> <<>>]

\* The wrapped function itself: its results are a function of the callee
\* and of the arguments it is entered with, nothing else.
Invoke(function, args) == <<[callee |-> function.val, args |-> args]>>

\* reflect.Value.Call on the wrapped function: aborts on a wrong count, a
\* zero Value or an unassignable type, else enters the function.
ReflectCall(function, in) ==
    LET ins == function.type.fields IN
    IF Len(in) # Len(ins) THEN Panicked
    ELSE IF \E i \in 1..Len(in) : ~in[i].valid THEN Panicked
    ELSE IF \E i \in 1..Len(in) : ~AssignableTo(in[i].typ, ins[i].Type) THEN Panicked
    ELSE LET args == [i \in 1..Len(in) |-> in[i].v] IN Returned(Invoke(function, args), "nil", <<args>>)

\* The validation loop of Call from position i on: reflect.Value.Type
\* aborts on the zero Value.
RECURSIVE ValidateArgs(_, _, _)
ValidateArgs(t, args, i) ==
    IF i > Len(args) THEN "ok"
    ELSE IF ~args[i].valid THEN "panic"
    ELSE IF ~AssignableTo(args[i].typ, t.paramTypes[i]) THEN "cannot assign"
    ELSE ValidateArgs(t, args, i + 1)

\* CallWithReflect with the type validation loop left out.
CallWithReflect_NoTypeCheck(t, args) ==
    IF Len(args) # Len(t.paramTypes) THEN Returned(NilResults, "wrong number of arguments", <<>>)
    ELSE ReflectCall(t.function, args)

CallWithReflect(t, args) ==
    IF Len(args) # Len(t.paramTypes) THEN Returned(NilResults, "wrong number of arguments", <<>>)
    ELSE LET v == ValidateArgs(t, args, 1) IN
         IF v = "panic" THEN Panicked
         ELSE IF v # "ok" THEN Returned(NilResults, v, <<>>)
         ELSE ReflectCall(t.function, args)

\* Call comparing types with != where the code asks AssignableTo.
Call_IdenticalTypesOnly(t, args) ==
    IF Len(args) # Len(t.paramTypes) THEN Returned(NilResults, "wrong number of arguments", <<>>)
    ELSE LET callArgs == [i \in 1..Len(args) |-> ValueOf(args[i])] IN
         IF \E i \in 1..Len(args) : ~callArgs[i].valid THEN Panicked
         ELSE IF \E i \in 1..Len(args) : callArgs[i].typ # t.paramTypes[i] THEN Returned(NilResults, "cannot assign", <<>>)
         ELSE ReflectCall(t.function, callArgs)

Call(t, args) ==
    IF Len(args) # Len(t.paramTypes) THEN Returned(NilResults, "wrong number of arguments", <<>>)
    ELSE LET callArgs == [i \in 1..Len(args) |-> ValueOf(args[i])]
             v == ValidateArgs(t, callArgs, 1)
         IN IF v = "panic" THEN Panicked
            ELSE IF v # "ok" THEN Returned(NilResults, v, <<>>)
            ELSE ReflectCall(t.function, callArgs)

\* CallWithStruct looking fields up by the parameter name as it is.
CallWithStruct_NoCapitalize(t, argStruct) ==
    LET sv == ValueOf(argStruct)
        structValue == IF sv.typ.kind = "ptr" THEN Elem(sv) ELSE sv
    IN IF ~structValue.valid THEN Panicked
       ELSE IF structValue.typ # t.structType THEN Returned(NilResults, "struct type mismatch", <<>>)
       ELSE ReflectCall(t.function, [i \in 1..Len(t.paramNames) |-> FieldByName(structValue, t.paramNames[i])])

\* CallWithStruct settling for structural compatibility.
CallWithStruct_Compatible(t, argStruct) ==
    LET sv == ValueOf(argStruct)
        structValue == IF sv.typ.kind = "ptr" THEN Elem(sv) ELSE sv
    IN IF ~structValue.valid THEN Panicked
       ELSE IF ~structTypesCompatible(structValue.typ, t.structType) THEN Returned(NilResults, "struct type mismatch", <<>>)
       ELSE ReflectCall(t.function, [i \in 1..Len(t.paramNames) |-> FieldByName(structValue, capitalizeFirst(t.paramNames[i]))])

CallWithStruct(t, argStruct) ==
    LET sv == ValueOf(argStruct)
        structValue == IF sv.typ.kind = "ptr" THEN Elem(sv) ELSE sv
    IN IF ~structValue.valid THEN Panicked
       ELSE IF structValue.typ # t.structType THEN Returned(NilResults, "struct type mismatch", <<>>)
       ELSE ReflectCall(t.function, [i \in 1..Len(t.paramNames) |-> FieldByName(structValue, capitalizeFirst(t.paramNames[i]))])

\* The splicing loop reading the caller's list at the parameter's own
\* position instead of at argIndex.
RECURSIVE SpliceFrom_ByPosition(_, _, _, _, _, _)
SpliceFrom_ByPosition(t, contextPositions, ctx, args, i, fullArgs) ==
    IF i >= Len(t.paramTypes) THEN [err |-> "nil", fullArgs |-> fullArgs]
    ELSE IF i \in contextPositions THEN SpliceFrom_ByPosition(t, contextPositions, ctx, args, i + 1, Append(fullArgs, ctx))
    ELSE IF i >= Len(args) THEN [err |-> "not enough arguments", fullArgs |-> fullArgs]
    ELSE SpliceFrom_ByPosition(t, contextPositions, ctx, args, i + 1, Append(fullArgs, args[i + 1]))

\* The splicing loop from Go position i on; argIndex counts the caller's
\* arguments consumed so far.
RECURSIVE SpliceFrom(_, _, _, _, _, _)
SpliceFrom(t, contextPositions, ctx, args, i, fullArgs) ==
    IF i >= Len(t.paramTypes) THEN [err |-> "nil", fullArgs |-> fullArgs]
    ELSE IF i \in contextPositions THEN SpliceFrom(t, contextPositions, ctx, args, i + 1, Append(fullArgs, ctx))
    ELSE LET argIndex == Cardinality({j \in 0..(i - 1) : j \notin contextPositions}) IN
         IF argIndex >= Len(args) THEN [err |-> "not enough arguments", fullArgs |-> fullArgs]
         ELSE SpliceFrom(t, contextPositions, ctx, args, i + 1, Append(fullArgs, args[argIndex + 1]))

CallWithContext(t, ctx, args) ==
    LET contextPositions == GetContextPositions(t) IN
    IF Cardinality(contextPositions) = 0 THEN Call(t, args)
    ELSE LET sp == SpliceFrom(t, contextPositions, ctx, args, 0, <<>>) IN
         IF sp.err # "nil" THEN Returned(NilResults, sp.err, <<>>) ELSE Call(t, sp.fullArgs)

\* reflect.Value.Interface: the content of the Value.
Interface(rv) == rv.v

\* CallWithNonContextStructAndContext asking for the identical type.
CallWithNonContextStructAndContext_Identical(t, ctx, argStruct) ==
    LET sv == ValueOf(argStruct)
        structValue == IF sv.typ.kind = "ptr" THEN Elem(sv) ELSE sv
        nonContextStructType == GetNonContextStructType(t)
    IN IF ~structValue.valid THEN Panicked
       ELSE IF structValue.typ # nonContextStructType THEN Returned(NilResults, "struct type mismatch", <<>>)
       ELSE LET nonContextNames == GetNonContextParameters(t).names IN
            CallWithContext(t, ctx, [i \in 1..Len(nonContextNames) |-> Interface(FieldByName(structValue, capitalizeFirst(nonContextNames[i])))])

CallWithNonContextStructAndContext(t, ctx, argStruct) ==
    LET sv == ValueOf(argStruct)
        structValue == IF sv.typ.kind = "ptr" THEN Elem(sv) ELSE sv
        nonContextStructType == GetNonContextStructType(t)
    IN IF ~structValue.valid THEN Panicked
       ELSE IF ~structTypesCompatible(structValue.typ, nonContextStructType) THEN Returned(NilResults, "struct type mismatch", <<>>)
       ELSE LET nonContextNames == GetNonContextParameters(t).names
                fieldValues == [i \in 1..Len(nonContextNames) |-> FieldByName(structValue, capitalizeFirst(nonContextNames[i]))]
            IN IF \E i \in 1..Len(fieldValues) : ~fieldValues[i].valid THEN Panicked
               ELSE CallWithContext(t, ctx, [i \in 1..Len(fieldValues) |-> Interface(fieldValues[i])])

\* MapToArgs filling the list from the last declared name to the first.
MapToArgs_Reversed(t, argMap) ==
    LET n == Len(t.paramNames) IN
    IF Cardinality(DOMAIN argMap) # Len(t.paramTypes) THEN [outcome |-> "return", args |-> <<>>, err |-> "wrong number of arguments"]
    ELSE IF \E i \in 1..n : t.paramNames[i] \notin DOMAIN argMap THEN [outcome |-> "return", args |-> <<>>, err |-> "missing required parameters"]
    ELSE IF \E i \in 1..n : argMap[t.paramNames[i]] = NilIface THEN [outcome |-> "panic", args |-> <<>>, err |-> "nil"]
    ELSE IF \E i \in 1..n : ~AssignableTo(argMap[t.paramNames[n + 1 - i]].type, t.paramTypes[i]) THEN [outcome |-> "return", args |-> <<>>, err |-> "cannot assign"]
    ELSE [outcome |-> "return", args |-> [i \in 1..n |-> argMap[t.paramNames[n + 1 - i]]], err |-> "nil"]

\* MapToArgs without the size check, so that extra keys are ignored.
MapToArgs_NoSizeCheck(t, argMap) ==
    IF \E i \in 1..Len(t.paramNames) : t.paramNames[i] \notin DOMAIN argMap THEN [outcome |-> "return", args |-> <<>>, err |-> "missing required parameters"]
    ELSE LET v == ValidateArgs(t, [i \in 1..Len(t.paramNames) |-> ValueOf(argMap[t.paramNames[i]])], 1) IN
         IF v = "panic" THEN [outcome |-> "panic", args |-> <<>>, err |-> "nil"]
         ELSE IF v # "ok" THEN [outcome |-> "return", args |-> <<>>, err |-> v]
         ELSE [outcome |-> "return", args |-> [i \in 1..Len(t.paramNames) |-> argMap[t.paramNames[i]]], err |-> "nil"]

\* A map[string]any is a function from its keys to its values.
MapToArgs(t, argMap) ==
    IF Cardinality(DOMAIN argMap) # Len(t.paramTypes) THEN [outcome |-> "return", args |-> <<>>, err |-> "wrong number of arguments"]
    ELSE IF \E i \in 1..Len(t.paramNames) : t.paramNames[i] \notin DOMAIN argMap THEN [outcome |-> "return", args |-> <<>>, err |-> "missing required parameters"]
    ELSE LET v == ValidateArgs(t, [i \in 1..Len(t.paramNames) |-> ValueOf(argMap[t.paramNames[i]])], 1) IN
         IF v = "panic" THEN [outcome |-> "panic", args |-> <<>>, err |-> "nil"]
         ELSE IF v # "ok" THEN [outcome |-> "return", args |-> <<>>, err |-> v]
         ELSE [outcome |-> "return", args |-> [i \in 1..Len(t.paramNames) |-> argMap[t.paramNames[i]]], err |-> "nil"]

CallWithMap(t, argMap) ==
    LET m == MapToArgs(t, argMap) IN
    IF m.outcome = "panic" THEN Panicked
    ELSE IF m.err # "nil" THEN Returned(NilResults, m.err, <<>>)
    ELSE ReflectCall(t.function, [i \in 1..Len(m.args) |-> ValueOf(m.args[i])])

-----------------------------------------------------------------------------
(* What callers supply *)

\* The values a field of the given type can hold.
FieldValues(type) == {Zero(type)} \cup {v \in (Values \cup Contexts) \ {NilIface} : AssignableTo(v.type, type)}

\* A record with its fields set through reflection or the generated accessors.
Populated(rec) == {[rec EXCEPT !.fields = vs] : vs \in {f \in [1..Len(rec.type.fields) -> Values \cup Contexts \cup {Zero(StringT), Zero(IntT)}] : \A i \in 1..Len(rec.type.fields) : f[i] \in FieldValues(rec.type.fields[i].Type)}}

\* struct{ X int }, the record of TestCallWithStruct_TypeMismatch.
WrongStructType == StructOf(<<StructField(<<"X">>, IntT, <<>>)>>)

OptionLists == {<<>>, <<StructOptions("nil", "nil")>>, <<StructOptions("nil", "custom")>>, <<StructOptions("custom", "custom")>>}

BlankRecords(t) == UNION {{NewParams(t, o), NewParamsPtr(t, o), NewNonContextParams(t, o), NewNonContextParamsPtr(t, o)} : o \in OptionLists} \cup {NewStruct(WrongStructType), NewStructPtr(WrongStructType)}

\* Everything a caller can pass where a record is expected: populated
\* records and pointers to them, nil pointers, the nil interface, a scalar.
Records(t) == UNION {Populated(b) : b \in BlankRecords(t)} \cup {[type |-> b.type, val |-> "nil", fields |-> <<>>] : b \in {c \in BlankRecords(t) : c.type.kind = "ptr"}} \cup {NilIface, Int1}

ExtraKey == NameOf.extra

\* Maps over the declared names and one foreign key.
Maps(t) == UNION {[K -> Values] : K \in {J \in SUBSET (Range(t.paramNames) \cup {ExtraKey}) : Cardinality(J) <= MaxArgs}}

ArgLists == SeqsUpTo(Values, MaxArgs)

\* What can be handed to NewFunction: a function, a string, nil.
Callables == {FuncValue(f) : f \in Funcs} \cup {StrA, NilIface}

-----------------------------------------------------------------------------
(* The program *)

\* The caller's record of the operation in progress: its inputs and what
\* it handed back.
Op(op, args, ctx, argMap, argStruct, r, out) == [op |-> op, args |-> args, ctx |-> ctx, argMap |-> argMap, argStruct |-> argStruct, outcome |-> r.outcome, results |-> r.results, err |-> r.err, invoked |-> r.invoked, out |-> out]

NoOp == Op("none", <<>>, NilIface, EmptyMap, NilIface, [outcome |-> "none", results |-> NilResults, err |-> "nil", invoked |-> <<>>], <<>>)

\* The goroutines of the program.
Goroutines == 1..NumCallers

\* A goroutine: where it stands, the operation it is in, and the
\* descriptor it took hold of when it began an invocation.
Caller(pc, call, held) == [pc |-> pc, call |-> call, held |-> held]

IdleCaller == Caller("idle", NoOp, NoFunction)

\* The process before anything has touched the resolver.
Fresh ==
    /\ resolverOnce = FALSE
    /\ onceM = 0
    /\ globalResolver = NoResolver
    /\ resolverInitErr = "nil"
    /\ builds = 0
    /\ fn = NoFunction
    /\ last = NoOp
    /\ callers = [g \in Goroutines |-> IdleCaller]

\* The process started from one of the given executables.
StartOn(files) ==
    /\ executable \in files
    /\ Fresh

Init ==
    /\ executable \in Executables
    /\ Fresh

\* resolverOnce.Do(initResolver) run by one goroutine from start to end:
\* the resolver state after the gate, and whether initResolver ran.
OnceDo_Rebuilds == [dr |-> initResolver(executable).dr, err |-> initResolver(executable).err, ran |-> TRUE]

OnceDo == IF resolverOnce THEN [dr |-> globalResolver, err |-> resolverInitErr, ran |-> FALSE] ELSE [dr |-> initResolver(executable).dr, err |-> initResolver(executable).err, ran |-> TRUE]

\* The globals after the gate; builds counts the runs of initResolver.
Gate(once) ==
    /\ resolverOnce' = TRUE
    /\ globalResolver' = once.dr
    /\ resolverInitErr' = once.err
    /\ builds' = builds + (IF once.ran THEN 1 ELSE 0)
    /\ UNCHANGED onceM

\* NewFunction leaving the record type to the first request for it.
NewFunctionBody_Lazy(dr, initErr, x) ==
    IF initErr # "nil" THEN [outcome |-> "return", fn |-> NoFunction, err |-> initErr]
    ELSE LET fnValue == ValueOf(x) IN
         IF ~fnValue.valid THEN [outcome |-> "panic", fn |-> NoFunction, err |-> "nil"]
         ELSE IF fnValue.typ.kind # "func" THEN [outcome |-> "return", fn |-> NoFunction, err |-> "NewFunction requires a function"]
         ELSE LET funcName == FuncByPC(x.val).name
                  paramTypes == [i \in 1..Len(fnValue.typ.fields) |-> fnValue.typ.fields[i].Type]
                  found == discoverParameterNames(dr, funcName, Len(paramTypes))
              IN IF found.err # "nil" THEN [outcome |-> "return", fn |-> NoFunction, err |-> found.err]
                 ELSE IF StructOfPanics(createStructType(found.names, paramTypes).fields) THEN [outcome |-> "panic", fn |-> NoFunction, err |-> "nil"]
                 ELSE [outcome |-> "return", err |-> "nil", fn |-> [valid |-> TRUE, function |-> x, paramNames |-> found.names, paramTypes |-> paramTypes, structType |-> NoType, funcName |-> funcName, packagePath |-> extractPackagePath(funcName)]]

\* The body of NewFunction after the gate: the descriptor, the error, or
\* an abort (reflect.Value.Type of the zero Value; reflect.StructOf).
NewFunctionBody(dr, initErr, x) ==
    IF initErr # "nil" THEN [outcome |-> "return", fn |-> NoFunction, err |-> initErr]
    ELSE LET fnValue == ValueOf(x) IN
         IF ~fnValue.valid THEN [outcome |-> "panic", fn |-> NoFunction, err |-> "nil"]
         ELSE IF fnValue.typ.kind # "func" THEN [outcome |-> "return", fn |-> NoFunction, err |-> "NewFunction requires a function"]
         ELSE LET funcName == FuncByPC(x.val).name
                  paramTypes == [i \in 1..Len(fnValue.typ.fields) |-> fnValue.typ.fields[i].Type]
                  found == discoverParameterNames(dr, funcName, Len(paramTypes))
              IN IF found.err # "nil" THEN [outcome |-> "return", fn |-> NoFunction, err |-> found.err]
                 ELSE IF StructOfPanics(createStructType(found.names, paramTypes).fields) THEN [outcome |-> "panic", fn |-> NoFunction, err |-> "nil"]
                 ELSE [outcome |-> "return", err |-> "nil", fn |-> [valid |-> TRUE, function |-> x, paramNames |-> found.names, paramTypes |-> paramTypes, structType |-> createStructType(found.names, paramTypes), funcName |-> funcName, packagePath |-> extractPackagePath(funcName)]]

Idle == last.op = "none"

\* NewFunction keeping the names it resolved in the index, under the
\* runtime name.
NewFunction_IndexesRuntimeName(x) ==
    /\ Idle
    /\ LET once == OnceDo
           r == NewFunctionBody(once.dr, once.err, x)
       IN /\ resolverOnce' = TRUE /\ resolverInitErr' = once.err /\ builds' = builds + (IF once.ran THEN 1 ELSE 0)
          /\ globalResolver' = IF r.outcome = "return" /\ r.err = "nil" THEN [once.dr EXCEPT !.functionMap = MapPut(@, r.fn.funcName, r.fn.paramNames)] ELSE once.dr
          /\ fn' = IF r.outcome = "panic" THEN fn ELSE r.fn
          /\ last' = Op("NewFunction", <<x>>, NilIface, EmptyMap, NilIface, [outcome |-> r.outcome, results |-> NilResults, err |-> r.err, invoked |-> <<>>], [built |-> once.ran])
    /\ UNCHANGED <<executable, onceM, callers>>

NewFunction(x) ==
    /\ Idle
    /\ LET once == OnceDo
           r == NewFunctionBody(once.dr, once.err, x)
       IN /\ Gate(once)
          /\ fn' = IF r.outcome = "panic" THEN fn ELSE r.fn
          /\ last' = Op("NewFunction", <<x>>, NilIface, EmptyMap, NilIface, [outcome |-> r.outcome, results |-> NilResults, err |-> r.err, invoked |-> <<>>], [built |-> once.ran])
    /\ UNCHANGED <<executable, callers>>

DoCall(args) ==
    /\ Idle /\ fn.valid
    /\ last' = Op("Call", args, NilIface, EmptyMap, NilIface, Call(fn, args), <<>>)
    /\ UNCHANGED <<executable, resolverOnce, onceM, globalResolver, resolverInitErr, builds, fn, callers>>

DoCallWithReflect(args) ==
    /\ Idle /\ fn.valid
    /\ last' = Op("CallWithReflect", args, NilIface, EmptyMap, NilIface, CallWithReflect(fn, [i \in 1..Len(args) |-> ValueOf(args[i])]), <<>>)
    /\ UNCHANGED <<executable, resolverOnce, onceM, globalResolver, resolverInitErr, builds, fn, callers>>

DoCallWithStruct(argStruct) ==
    /\ Idle /\ fn.valid
    /\ last' = Op("CallWithStruct", <<>>, NilIface, EmptyMap, argStruct, CallWithStruct(fn, argStruct), <<>>)
    /\ UNCHANGED <<executable, resolverOnce, onceM, globalResolver, resolverInitErr, builds, fn, callers>>

DoCallWithContext(ctx, args) ==
    /\ Idle /\ fn.valid
    /\ last' = Op("CallWithContext", args, ctx, EmptyMap, NilIface, CallWithContext(fn, ctx, args), <<>>)
    /\ UNCHANGED <<executable, resolverOnce, onceM, globalResolver, resolverInitErr, builds, fn, callers>>

DoCallWithNonContextStructAndContext(ctx, argStruct) ==
    /\ Idle /\ fn.valid
    /\ last' = Op("CallWithNonContextStructAndContext", <<>>, ctx, EmptyMap, argStruct, CallWithNonContextStructAndContext(fn, ctx, argStruct), <<>>)
    /\ UNCHANGED <<executable, resolverOnce, onceM, globalResolver, resolverInitErr, builds, fn, callers>>

DoCallWithMap(argMap) ==
    /\ Idle /\ fn.valid
    /\ last' = Op("CallWithMap", <<>>, NilIface, argMap, NilIface, CallWithMap(fn, argMap), <<>>)
    /\ UNCHANGED <<executable, resolverOnce, onceM, globalResolver, resolverInitErr, builds, fn, callers>>

DoMapToArgs(argMap) ==
    /\ Idle /\ fn.valid
    /\ LET m == MapToArgs(fn, argMap) IN last' = Op("MapToArgs", <<>>, NilIface, argMap, NilIface, [outcome |-> m.outcome, results |-> NilResults, err |-> m.err, invoked |-> <<>>], m.args)
    /\ UNCHANGED <<executable, resolverOnce, onceM, globalResolver, resolverInitErr, builds, fn, callers>>

\* The caller takes the outcome and is ready for its next operation.
Return ==
    /\ ~Idle
    /\ last' = NoOp
    /\ UNCHANGED <<executable, resolverOnce, onceM, globalResolver, resolverInitErr, builds, fn, callers>>

\* The caller's choice of its next operation and of its inputs.
Next ==
    \/ Idle /\ \E x \in Callables : NewFunction(x)
    \/ Idle /\ fn.valid /\ \E args \in ArgLists : DoCall(args)
    \/ Idle /\ fn.valid /\ \E args \in ArgLists : DoCallWithReflect(args)
    \/ Idle /\ fn.valid /\ \E argStruct \in Records(fn) : DoCallWithStruct(argStruct)
    \/ Idle /\ fn.valid /\ \E ctx \in Contexts, args \in ArgLists : DoCallWithContext(ctx, args)
    \/ Idle /\ fn.valid /\ \E ctx \in Contexts, argStruct \in Records(fn) : DoCallWithNonContextStructAndContext(ctx, argStruct)
    \/ Idle /\ fn.valid /\ \E argMap \in Maps(fn) : DoCallWithMap(argMap)
    \/ Idle /\ fn.valid /\ \E argMap \in Maps(fn) : DoMapToArgs(argMap)
    \/ Return

Spec == Init /\ [][Next]_vars

-----------------------------------------------------------------------------
(* The resolver's own operations, over debug sections of every content *)

\* An operation that hands back something other than call results.
Query(op, out, err) == Op(op, <<>>, NilIface, EmptyMap, NilIface, [outcome |-> "return", results |-> NilResults, err |-> err, invoked |-> <<>>], out)

DoGetDWARFStatus ==
    /\ Idle
    /\ LET once == OnceDo
           r == GetDWARFStatus(once.dr, once.err)
       IN Gate(once) /\ last' = Query("GetDWARFStatus", r, r.err)
    /\ UNCHANGED <<executable, fn, callers>>

DoDebugDWARFParameters(funcName) ==
    /\ Idle
    /\ LET once == OnceDo
           r == DebugDWARFParameters(once.dr, once.err, funcName)
       IN Gate(once) /\ last' = Query("DebugDWARFParameters", [funcName |-> funcName, inputParams |-> r.inputParams, allParams |-> r.allParams], r.err)
    /\ UNCHANGED <<executable, fn, callers>>

DoGetAllDWARFFunctions ==
    /\ Idle
    /\ LET once == OnceDo IN Gate(once) /\ last' = Query("GetAllDWARFFunctions", GetAllDWARFFunctions(once.dr, once.err), "nil")
    /\ UNCHANGED <<executable, fn, callers>>

\* The resolver looking a function up, as NewFunction has it do once the
\* build has succeeded.
DoDiscoverParameterNames(funcName, paramCount) ==
    /\ Idle /\ resolverOnce /\ resolverInitErr = "nil"
    /\ LET r == discoverParameterNames(globalResolver, funcName, paramCount) IN last' = Query("discoverParameterNames", [funcName |-> funcName, paramCount |-> paramCount, names |-> r.names], r.err)
    /\ UNCHANGED <<executable, resolverOnce, onceM, globalResolver, resolverInitErr, builds, fn, callers>>

\* Identifiers a caller asks about: indexed ones and one that is not.
QueryNames == {FullKey, ShortKey, PkgPrefix \o <<"nosuch">>}

ResolverInit ==
    /\ executable \in Executables \cup DebugBinaries
    /\ Fresh

ResolverNext ==
    \/ Idle /\ \E x \in Callables : NewFunction(x)
    \/ DoGetDWARFStatus
    \/ Idle /\ \E funcName \in QueryNames : DoDebugDWARFParameters(funcName)
    \/ DoGetAllDWARFFunctions
    \/ Idle /\ resolverOnce /\ \E funcName \in QueryNames, paramCount \in 0..MaxFormals : DoDiscoverParameterNames(funcName, paramCount)
    \/ Return

ResolverSpec == ResolverInit /\ [][ResolverNext]_vars

-----------------------------------------------------------------------------
(* The whole public API in one program *)

DoTestDWARFExtraction ==
    /\ Idle
    /\ LET r == TestDWARFExtraction(executable) IN last' = Query("TestDWARFExtraction", [count |-> r.count], r.err)
    /\ UNCHANGED <<executable, resolverOnce, onceM, globalResolver, resolverInitErr, builds, fn, callers>>

\* Construction, every invocation style and every resolver operation, in
\* any order.
ApiSpec == Init /\ [][Next \/ DoGetDWARFStatus \/ (Idle /\ \E funcName \in QueryNames : DoDebugDWARFParameters(funcName)) \/ DoGetAllDWARFFunctions \/ DoTestDWARFExtraction]_vars

-----------------------------------------------------------------------------
(* First use by several goroutines at once: sync.Once step by step *)

\* The public operations that pass the gate, with the inputs tried here.
FirstCalls == {Op("NewFunction", <<x>>, NilIface, EmptyMap, NilIface, [outcome |-> "none", results |-> NilResults, err |-> "nil", invoked |-> <<>>], <<>>) : x \in {FuncValue(TestFuncs[1]), StrA}}
    \cup {Query(op, <<>>, "nil") : op \in {"GetDWARFStatus", "GetAllDWARFFunctions"}}
    \cup {Query("DebugDWARFParameters", FullKey, "nil")}

\* A goroutine enters a public operation, whose first statement is
\* resolverOnce.Do(initResolver).
Enter(g, call) ==
    /\ callers[g].pc = "idle"
    /\ callers' = [callers EXCEPT ![g] = Caller("Do", call, NoFunction)]
    /\ UNCHANGED <<executable, resolverOnce, onceM, globalResolver, resolverInitErr, builds, fn, last>>

\* Once.Do: the done flag is read without the mutex.
OnceDoFast(g) ==
    /\ callers[g].pc = "Do"
    /\ callers' = [callers EXCEPT ![g].pc = IF resolverOnce THEN "after" ELSE "doSlow"]
    /\ UNCHANGED <<executable, resolverOnce, onceM, globalResolver, resolverInitErr, builds, fn, last>>

\* doSlow entered by whoever gets there, mutex or not.
OnceDoSlow_NoMutex(g) ==
    /\ callers[g].pc = "doSlow"
    /\ callers' = [callers EXCEPT ![g].pc = IF resolverOnce THEN "after" ELSE "initResolver"]
    /\ UNCHANGED <<executable, resolverOnce, onceM, globalResolver, resolverInitErr, builds, fn, last>>

\* doSlow: take the mutex, read the flag again; the mutex is given back
\* at once when the flag is set (the deferred Unlock).
OnceDoSlow(g) ==
    /\ callers[g].pc = "doSlow"
    /\ onceM = 0
    /\ onceM' = IF resolverOnce THEN 0 ELSE g
    /\ callers' = [callers EXCEPT ![g].pc = IF resolverOnce THEN "after" ELSE "initResolver"]
    /\ UNCHANGED <<executable, resolverOnce, globalResolver, resolverInitErr, builds, fn, last>>

\* initResolver, first statement: the fresh resolver is published.
InitResolverStart(g) ==
    /\ callers[g].pc = "initResolver"
    /\ globalResolver' = [functionMap |-> EmptyMap, dwarfData |-> FALSE]
    /\ builds' = builds + 1
    /\ callers' = [callers EXCEPT ![g].pc = "loadDWARFData"]
    /\ UNCHANGED <<executable, resolverOnce, onceM, resolverInitErr, fn, last>>

\* initResolver, the rest: loadDWARFData fills the resolver or its error
\* is stored.
InitResolverLoad(g) ==
    /\ callers[g].pc = "loadDWARFData"
    /\ LET r == loadDWARFData(executable, globalResolver) IN
       /\ globalResolver' = r.dr
       /\ resolverInitErr' = IF r.err # "nil" THEN r.err ELSE resolverInitErr
    /\ callers' = [callers EXCEPT ![g].pc = "deferred"]
    /\ UNCHANGED <<executable, resolverOnce, onceM, builds, fn, last>>

\* The deferred calls of doSlow: done.Store(1), then m.Unlock().
OnceDone(g) ==
    /\ callers[g].pc = "deferred"
    /\ resolverOnce' = TRUE
    /\ onceM' = IF onceM = g THEN 0 ELSE onceM
    /\ callers' = [callers EXCEPT ![g].pc = "after"]
    /\ UNCHANGED <<executable, globalResolver, resolverInitErr, builds, fn, last>>

\* What the operation hands back from the globals it reads after the gate.
AfterGate(op, x, dr, initErr) ==
    IF op = "NewFunction" THEN NewFunctionBody(dr, initErr, x[1])
    ELSE IF op = "GetDWARFStatus" THEN GetDWARFStatus(dr, initErr)
    ELSE IF op = "DebugDWARFParameters" THEN DebugDWARFParameters(dr, initErr, x)
    ELSE GetAllDWARFFunctions(dr, initErr)

\* The statements after the gate: the goroutine keeps what it read of the
\* globals and what the operation handed back.
Proceed(g) ==
    /\ callers[g].pc = "after"
    /\ LET c == callers[g].call
           x == IF c.op = "NewFunction" THEN c.args ELSE c.out
       IN callers' = [callers EXCEPT ![g] = Caller("done", [c EXCEPT !.out = [initErr |-> resolverInitErr, dr |-> globalResolver, once |-> resolverOnce, result |-> AfterGate(c.op, x, globalResolver, resolverInitErr)]], NoFunction)]
    /\ UNCHANGED <<executable, resolverOnce, onceM, globalResolver, resolverInitErr, builds, fn, last>>

OnceNext ==
    \E g \in Goroutines :
        \/ \E call \in FirstCalls : Enter(g, call)
        \/ OnceDoFast(g)
        \/ OnceDoSlow(g)
        \/ InitResolverStart(g)
        \/ InitResolverLoad(g)
        \/ OnceDone(g)
        \/ Proceed(g)

OnceSpec == Init /\ [][OnceNext]_vars

-----------------------------------------------------------------------------
(* The caller writing into the map GetAllDWARFFunctions handed back *)

\* A map without the key k.
MapDelete(m, k) == [x \in DOMAIN m \ {k} |-> m[x]]

\* The caller's delete(m, k), m[k] = l or m[k][i] = "x" on the dump it
\* holds. The write reaches the resolver's functionMap where the map or
\* the list written to is the resolver's own storage.
MutateDump(kind, k, i, l) ==
    /\ last.op = "GetAllDWARFFunctions"
    /\ kind \in {"delete", "write"} => k \in DOMAIN last.out.m
    /\ kind = "write" => i \in 1..Len(last.out.m[k])
    /\ LET d == last.out
           change(m) == IF kind = "delete" THEN MapDelete(m, k) ELSE IF kind = "put" THEN MapPut(m, k, l) ELSE [m EXCEPT ![k][i] = NameOf.x]
           reaches == IF kind = "write" THEN (d.sharesMap \/ k \in d.sharesLists) /\ k \in DOMAIN globalResolver.functionMap ELSE d.sharesMap
       IN /\ last' = [last EXCEPT !.args = <<kind>>, !.out = Dump(change(d.m), d.isNil, d.sharesMap, IF kind = "write" THEN d.sharesLists ELSE d.sharesLists \ {k})]
          /\ globalResolver' = IF reaches THEN [globalResolver EXCEPT !.functionMap = change(@)] ELSE globalResolver
    /\ UNCHANGED <<executable, resolverOnce, onceM, resolverInitErr, builds, fn, callers>>

\* Dumps, writes into them, and resolutions and dumps after the writes.
DumpSpec == Init /\ [][(Idle /\ \E x \in {FuncValue(TestFuncs[1]), StrA} : NewFunction(x)) \/ DoGetAllDWARFFunctions \/ (\E kind \in {"delete", "put", "write"}, k \in {FullKey, PkgPrefix \o <<"nosuch">>}, i \in 1..MaxFormals, l \in {<<>>, <<NameOf.x>>} : MutateDump(kind, k, i, l)) \/ Return]_vars

-----------------------------------------------------------------------------
(* Invocations of one descriptor by several goroutines at once *)

\* The invocations tried on descriptor t, one that fits its parameters
\* and one that does not for each style; each call keeps, next to its
\* inputs, what they were when the caller handed them over.
Invocations(t) ==
    LET okArgs == [i \in 1..Len(t.paramTypes) |-> IF t.paramTypes[i] = StringT THEN StrA ELSE IF t.paramTypes[i] = IntT THEN Int1 ELSE CtxBg]
        okMap == [k \in Range(t.paramNames) |-> okArgs[CHOOSE i \in 1..Len(t.paramNames) : t.paramNames[i] = k]]
        inputs == {[op |-> "Call", args |-> a, ctx |-> NilIface, argMap |-> EmptyMap, argStruct |-> NilIface] : a \in {okArgs, <<StrA>>}}
                  \cup {[op |-> "CallWithReflect", args |-> a, ctx |-> NilIface, argMap |-> EmptyMap, argStruct |-> NilIface] : a \in {okArgs, <<StrA>>}}
                  \cup {[op |-> "CallWithStruct", args |-> <<>>, ctx |-> NilIface, argMap |-> EmptyMap, argStruct |-> r] : r \in {[NewParamsPtr(t, <<>>) EXCEPT !.fields = okArgs], Int1}}
                  \cup {[op |-> "CallWithContext", args |-> a, ctx |-> CtxBg, argMap |-> EmptyMap, argStruct |-> NilIface] : a \in {[i \in 1..Len(GetNonContextParameters(t).types) |-> IF GetNonContextParameters(t).types[i] = StringT THEN StrA ELSE Int1], <<CtxBg>>}}
                  \cup {[op |-> "CallWithNonContextStructAndContext", args |-> <<>>, ctx |-> CtxBg, argMap |-> EmptyMap, argStruct |-> r] : r \in {NewNonContextParamsPtr(t, <<>>), Int1}}
                  \cup {[op |-> o, args |-> <<>>, ctx |-> NilIface, argMap |-> m, argStruct |-> NilIface] : o \in {"CallWithMap", "MapToArgs"}, m \in {okMap, EmptyMap}}
    IN {Op(i.op, i.args, i.ctx, i.argMap, i.argStruct, [outcome |-> "pending", results |-> NilResults, err |-> "nil", invoked |-> <<>>], [given |-> i, args |-> <<>>]) : i \in inputs}

\* Goroutine g calls a method of the descriptor.
Begin(g, call) ==
    /\ fn.valid /\ callers[g].pc = "idle"
    /\ callers' = [callers EXCEPT ![g] = Caller("invoking", call, fn)]
    /\ UNCHANGED <<executable, resolverOnce, onceM, globalResolver, resolverInitErr, builds, fn, last>>

\* The method writing the capitalized names back into the descriptor.
Finish_CapitalizesInPlace(g) ==
    /\ callers[g].pc = "invoking"
    /\ callers' = [callers EXCEPT ![g].pc = "done"]
    /\ fn' = [fn EXCEPT !.paramNames = [i \in 1..Len(fn.paramNames) |-> capitalizeFirst(fn.paramNames[i])]]
    /\ UNCHANGED <<executable, resolverOnce, onceM, globalResolver, resolverInitErr, builds, last>>

\* The method runs on the descriptor and returns; it assigns to no field
\* of the descriptor and writes to none of its inputs.
Finish(g) ==
    /\ callers[g].pc = "invoking"
    /\ LET c == callers[g].call
           m == MapToArgs(fn, c.argMap)
           r == CASE c.op = "Call" -> Call(fn, c.args)
                  [] c.op = "CallWithReflect" -> CallWithReflect(fn, [i \in 1..Len(c.args) |-> ValueOf(c.args[i])])
                  [] c.op = "CallWithStruct" -> CallWithStruct(fn, c.argStruct)
                  [] c.op = "CallWithContext" -> CallWithContext(fn, c.ctx, c.args)
                  [] c.op = "CallWithNonContextStructAndContext" -> CallWithNonContextStructAndContext(fn, c.ctx, c.argStruct)
                  [] c.op = "CallWithMap" -> CallWithMap(fn, c.argMap)
                  [] c.op = "MapToArgs" -> [outcome |-> m.outcome, results |-> NilResults, err |-> m.err, invoked |-> <<>>]
       IN callers' = [callers EXCEPT ![g] = Caller("done", Op(c.op, c.args, c.ctx, c.argMap, c.argStruct, r, [given |-> c.out.given, args |-> IF c.op = "MapToArgs" THEN m.args ELSE <<>>]), callers[g].held)]
    /\ UNCHANGED <<executable, resolverOnce, onceM, globalResolver, resolverInitErr, builds, fn, last>>

\* One descriptor is constructed, then the goroutines invoke it.
InvokeSpec == StartOn({File(TRUE, ELFMagic, TRUE, TestBinaryEntries)}) /\ [][(\E x \in {FuncValue(TestFuncs[1]), FuncValue(TestFuncs[4])} : NewFunction(x)) \/ (\E g \in Goroutines : \E call \in Invocations(fn) : Begin(g, call)) \/ (\E g \in Goroutines : Finish(g))]_vars

-----------------------------------------------------------------------------
(* DetectExecutableFormat on files of every content *)

\* The byte values the magic numbers are made of.
MagicBytes == {127, 69, 76, 70, 77, 90, 254, 237, 250, 206, 207}

\* A file that cannot be opened, and the files of every content up to
\* MaxFileLen bytes.
DetectFiles == {File(FALSE, <<>>, FALSE, <<>>)} \cup {File(TRUE, b, FALSE, <<>>) : b \in SeqsUpTo(MagicBytes, MaxFileLen)}

DoDetectExecutableFormat ==
    /\ Idle
    /\ LET r == DetectExecutableFormat(executable) IN last' = Query("DetectExecutableFormat", [format |-> r.format], r.err)
    /\ UNCHANGED <<executable, resolverOnce, onceM, globalResolver, resolverInitErr, builds, fn, callers>>

DetectSpec == StartOn(DetectFiles) /\ [][DoDetectExecutableFormat \/ Return]_vars

-----------------------------------------------------------------------------
(* generateFunctionKeyCandidates on identifiers of every shape *)

\* Identifiers of up to MaxIdLen tokens: a name, the dot, the path
\* separator, and the two characters of the pointer-receiver marker.
Identifiers == SeqsUpTo({"p", ".", "/", "(", "*"}, MaxIdLen)

DoGenerateFunctionKeyCandidates(runtimeName) ==
    /\ Idle
    /\ last' = Query("generateFunctionKeyCandidates", [runtimeName |-> runtimeName, candidates |-> generateFunctionKeyCandidates(runtimeName)], "nil")
    /\ UNCHANGED <<executable, resolverOnce, onceM, globalResolver, resolverInitErr, builds, fn, callers>>

CandidateSpec == StartOn({File(TRUE, ELFMagic, TRUE, TestBinaryEntries)}) /\ [][(\E runtimeName \in Identifiers : DoGenerateFunctionKeyCandidates(runtimeName)) \/ Return]_vars

-----------------------------------------------------------------------------
(* The index build over debug trees of every shape *)

\* Executables whose compile unit holds one subprogram under FullKey with
\* up to MaxChildren children, each a formal parameter or a lexical block
\* with at most one formal parameter of its own; before it, nothing, a
\* subprogram without children, or a subprogram without identifier; a
\* compile unit with no subprogram that has children; and the same
\* executables with the read failing at any record.
TreeBinaries ==
    LET param(x) == FormalEntries(<<x>>)
        block(l) == <<Entry("LexDwarfBlock", FALSE, <<>>, TRUE)>> \o FormalEntries(l) \o <<Entry("Null", FALSE, <<>>, FALSE)>>
        items == {param(NameOf.name), param(NameOf.age), block(<<>>), block(<<NameOf.x>>), block(<<NameOf.y>>)}
        RECURSIVE flat(_)
        flat(c) == IF c = <<>> THEN <<>> ELSE Head(c) \o flat(Tail(c))
        children == {flat(c) : c \in SeqsUpTo(items, MaxChildren)}
        sub(hasName, name, c) == <<Entry("Subprogram", hasName, name, TRUE)>> \o c \o <<Entry("Null", FALSE, <<>>, FALSE)>>
        bodies == {sub(TRUE, FullKey, c) : c \in children}
                  \cup {<<Entry("Subprogram", TRUE, ShortKey, FALSE)>> \o sub(TRUE, FullKey, c) : c \in children}
                  \cup {sub(h, <<>>, c) \o sub(TRUE, FullKey, param(NameOf.id)) : h \in BOOLEAN, c \in children}
                  \cup {<<>>, <<Entry("Subprogram", TRUE, ShortKey, FALSE)>>}
        whole == {<<Entry("CompileUnit", TRUE, <<"dwarfreflect">>, TRUE)>> \o b \o <<Entry("Null", FALSE, <<>>, FALSE)>> : b \in bodies}
        failing == UNION {{SubSeq(e, 1, n) \o <<Entry("Err", FALSE, <<>>, FALSE)>> : n \in 0..Len(e)} : e \in whole}
    IN {File(TRUE, ELFMagic, TRUE, e) : e \in whole \cup failing}

TreeSpec == StartOn(TreeBinaries) /\ [][DoGetAllDWARFFunctions \/ DoGetDWARFStatus \/ Return]_vars

-----------------------------------------------------------------------------
(* structTypesCompatible on types of every shape *)

\* Struct types of up to MaxFields fields over two names, two types and
\* two tags, a pointer to a struct, and types that are no structs.
TypeShapes ==
    LET structs == {StructOf(f) : f \in SeqsUpTo({StructField(n, t, g) : n \in {<<"A">>, <<"B">>}, t \in {StringT, IntT}, g \in {<<>>, <<"json">>}}, MaxFields)}
    IN structs \cup {PtrTo(StructOf(<<StructField(<<"A">>, IntT, <<>>)>>)), IntT, StringT, contextType}

DoStructTypesCompatible(t1, t2) ==
    /\ Idle
    /\ last' = Query("structTypesCompatible", [t1 |-> t1, t2 |-> t2, compatible |-> structTypesCompatible(t1, t2), converse |-> structTypesCompatible(t2, t1)], "nil")
    /\ UNCHANGED <<executable, resolverOnce, onceM, globalResolver, resolverInitErr, builds, fn, callers>>

CompatibleSpec == StartOn({File(TRUE, ELFMagic, TRUE, TestBinaryEntries)}) /\ [][(Idle /\ \E t1, t2 \in TypeShapes : DoStructTypesCompatible(t1, t2)) \/ Return]_vars

-----------------------------------------------------------------------------
(* Properties of the invocation layer *)

\* Every argument carries a runtime type (none is the untyped nil).
Typed(args) == \A i \in 1..Len(args) : args[i] # NilIface

\* The list has the declared length and each value's runtime type is
\* assignable to the declared type at its position.
TypeCorrect(t, args) == Len(args) = Len(t.paramTypes) /\ \A i \in 1..Len(args) : args[i] # NilIface /\ AssignableTo(args[i].type, t.paramTypes[i])

Accepted == last.outcome = "return" /\ last.err = "nil"

Rejected == last.outcome = "return" /\ last.err # "nil" /\ last.results = NilResults /\ last.invoked = <<>>

\* C1: a positional call (Call, CallWithReflect) whose argument list has
\* the declared length and assignable runtime types returns a nil error and
\* the results of the wrapped function entered directly with those
\* arguments in that order.
C1_PositionalMatchesDirectCall == (last.op \in {"Call", "CallWithReflect"} /\ TypeCorrect(fn, last.args)) => (Accepted /\ last.results = Invoke(fn.function, last.args) /\ last.invoked = <<last.args>>)

C1_Witness == last.op = "CallWithReflect" /\ Len(last.args) = 4 /\ TypeCorrect(fn, last.args) /\ last.results = Invoke(fn.function, last.args)

InDeclaredOrder(t, argMap) == [i \in 1..Len(t.paramNames) |-> argMap[t.paramNames[i]]]

DistinctNames(t) == \A i, j \in 1..Len(t.paramNames) : i # j => t.paramNames[i] # t.paramNames[j]

\* C3: for distinct parameter names and a map whose key set is exactly the
\* declared names with type-correct values, CallWithMap hands back what
\* Call hands back on the values in declared order, and MapToArgs returns
\* those values in declared order.
C3_MapEquivalentToPositional ==
    (last.op \in {"CallWithMap", "MapToArgs"} /\ DistinctNames(fn) /\ DOMAIN last.argMap = Range(fn.paramNames) /\ TypeCorrect(fn, InDeclaredOrder(fn, last.argMap)))
    => LET positional == Call(fn, InDeclaredOrder(fn, last.argMap)) IN
       /\ Accepted
       /\ last.op = "CallWithMap" => (last.results = positional.results /\ last.invoked = positional.invoked /\ last.invoked = <<InDeclaredOrder(fn, last.argMap)>>)
       /\ last.op = "MapToArgs" => last.out = InDeclaredOrder(fn, last.argMap)

C3_Witness == last.op = "CallWithMap" /\ fn.function.val = "testFunc2" /\ DOMAIN last.argMap = Range(fn.paramNames) /\ last.argMap[NameOf.x] = Int2 /\ last.argMap[NameOf.y] = Int1 /\ last.invoked = <<<<Int2, Int1>>>>

C5_ExtraKeysIgnored ==
    (last.op = "CallWithMap" /\ Range(fn.paramNames) \subseteq DOMAIN last.argMap /\ DOMAIN last.argMap # Range(fn.paramNames) /\ TypeCorrect(fn, InDeclaredOrder(fn, last.argMap)))
    => (Accepted /\ last.invoked = <<InDeclaredOrder(fn, last.argMap)>>)

\* The record is a value, or a non-nil pointer to one, of the given type.
RecordOf(rec, structType) == rec # NilIface /\ rec.val # "nil" /\ (rec.type = structType \/ rec.type = PtrTo(structType))

\* The struct type of a record or of what a pointer points to.
ElemType(rec) == IF rec.type.kind = "ptr" THEN StructOf(rec.type.fields) ELSE rec.type

\* C6: a record obtained from NewParams or NewParamsPtr with default
\* options, its fields set to values v_1..v_N and passed to CallWithStruct
\* as value or as pointer, hands back what Call(v_1, ..., v_N) hands back.
C6_RecordRoundTrip ==
    (last.op = "CallWithStruct" /\ (\E r \in {NewParams(fn, <<>>), NewParamsPtr(fn, <<>>)} : last.argStruct.type = r.type /\ last.argStruct.val = r.val) /\ Typed(last.argStruct.fields))
    => LET positional == Call(fn, last.argStruct.fields) IN
       /\ Accepted /\ positional.err = "nil"
       /\ last.results = positional.results
       /\ last.invoked = positional.invoked

C6_Witness == last.op = "CallWithStruct" /\ last.argStruct.type = NewParamsPtr(fn, <<>>).type /\ last.argStruct.val = "&" /\ last.argStruct.fields = <<CtxBg, Int2, StrA>> /\ last.results = Invoke(fn.function, <<CtxBg, Int2, StrA>>)

NonContextTypeCorrect(t, args) == LET p == GetNonContextParameters(t) IN Len(args) = Len(p.types) /\ \A k \in 1..Len(args) : args[k] # NilIface /\ AssignableTo(args[k].type, p.types[k])

\* The context at every context position, the k-th caller argument at the
\* k-th other position.
Spliced(t, ctx, args) == [i \in 1..Len(t.paramTypes) |-> IF (i - 1) \in GetContextPositions(t) THEN ctx ELSE args[Cardinality({j \in 1..i : (j - 1) \notin GetContextPositions(t)})]]

\* C8: with context positions C and exactly N-|C| caller arguments (typed,
\* each assignable to its parameter; a context that is not nil where C is
\* not empty), CallWithContext enters the function with the supplied
\* context at every position of C and the k-th argument at the k-th
\* position outside C.
C8_ContextSplicing ==
    (last.op = "CallWithContext" /\ NonContextTypeCorrect(fn, last.args) /\ (GetContextPositions(fn) # {} => last.ctx # NilIface))
    => (Accepted /\ last.invoked = <<Spliced(fn, last.ctx, last.args)>> /\ last.results = Invoke(fn.function, Spliced(fn, last.ctx, last.args)))

C8_Witness == last.op = "CallWithContext" /\ GetContextPositions(fn) = {0, 2} /\ Len(fn.paramTypes) = 4 /\ last.ctx = CtxTodo /\ last.args = <<StrA, Int2>> /\ last.invoked = <<<<CtxTodo, StrA, CtxTodo, Int2>>>>

\* C9: whenever the number of caller arguments differs from the number of
\* non-context parameters, fewer or more, CallWithContext returns a
\* non-nil error and does not enter the wrapped function.
C9_ContextCountMismatchRejected == (last.op = "CallWithContext" /\ Len(last.args) # Len(GetNonContextParameters(fn).types)) => Rejected

\* Same field count and, position by position, same names and types.
Compatible(type1, type2) == type1.kind = "struct" /\ type2.kind = "struct" /\ Len(type1.fields) = Len(type2.fields) /\ \A i \in 1..Len(type1.fields) : type1.fields[i].Name = type2.fields[i].Name /\ type1.fields[i].Type = type2.fields[i].Type

\* The record's value for each non-context parameter, read from the field
\* named by the capitalized parameter name, in declared order.
ReadByName(t, rec) == LET names == GetNonContextParameters(t).names IN [k \in 1..Len(names) |-> rec.fields[CHOOSE i \in 1..Len(rec.type.fields) : rec.type.fields[i].Name = capitalizeFirst(names[k])]]

\* C10: CallWithNonContextStructAndContext, given a record (or pointer to
\* one) structurally compatible with the non-context record type, tags
\* ignored, hands back what CallWithContext hands back on the context and
\* the values read by field name in declared order; given an incompatible
\* record it returns an error without entering the function.
C10_NonContextRecordWithContext ==
    (last.op = "CallWithNonContextStructAndContext" /\ last.argStruct # NilIface /\ last.argStruct.val # "nil") =>
        IF Compatible(ElemType(last.argStruct), GetNonContextStructType(fn))
        THEN LET viaContext == CallWithContext(fn, last.ctx, ReadByName(fn, last.argStruct)) IN
             last.outcome = viaContext.outcome /\ last.err = viaContext.err /\ last.results = viaContext.results /\ last.invoked = viaContext.invoked
        ELSE Rejected

C10_Witness == last.op = "CallWithNonContextStructAndContext" /\ fn.function.val = "testFunc4" /\ ElemType(last.argStruct) = GetNonContextStructTypeWithOptions(fn, StructOptions("nil", "custom")) /\ last.argStruct.val = "&" /\ last.ctx = CtxTodo /\ last.argStruct.fields = <<Int2, StrA>> /\ Accepted /\ last.invoked = <<<<CtxTodo, Int2, StrA>>>>

-----------------------------------------------------------------------------
(* Properties of name resolution and of descriptor construction *)

\* The callable handed to NewFunction, when it is one of the program's functions.
Constructed == FuncByPC(last.args[1].val)

IsReturnSlot(name) == HasPrefix(name, <<"~", "r">>)

\* C11: whatever the debug index holds, a descriptor that NewFunction has
\* handed back with a nil error for a callable of N declared parameters has
\* exactly N names and N types (GetParameterInfo), none of the names empty,
\* in the order in which the debug records list them: they are the first N
\* entries of the list indexed under one of the identifier's candidate
\* keys, and the declared names in declaration order where the debug
\* section is the one compiled from the program.
C11_ExactlyNNamesInOrder ==
    (last.op = "NewFunction" /\ Accepted) =>
        LET N == Len(Constructed.in)
            info == GetParameterInfo(fn)
        IN /\ fn.valid /\ fn.function = last.args[1]
           /\ Len(info.names) = N /\ Len(info.types) = N
           /\ \A i \in 1..N : info.names[i] # <<>>
           /\ \E key \in Range(generateFunctionKeyCandidates(Constructed.name)) \cap DOMAIN globalResolver.functionMap : Len(globalResolver.functionMap[key]) >= N /\ info.names = SubSeq(globalResolver.functionMap[key], 1, N)
           /\ executable.entries = TestBinaryEntries => info.names = SubSeq(Constructed.formals, 1, N)

C11_Witness == last.op = "NewFunction" /\ Accepted /\ executable \in DebugBinaries /\ DOMAIN globalResolver.functionMap = {ShortKey} /\ globalResolver.functionMap[ShortKey] = <<NameOf.name, NameOf.age, NameOf.r0>> /\ GetParameterInfo(fn).names = <<NameOf.name, NameOf.age>>

\* The list the index holds for an identifier: the one under the first of
\* its candidate keys that is indexed.
RawListFor(dr, funcName) == firstIndexed(dr.functionMap, generateFunctionKeyCandidates(funcName))

\* k names that are no return slots, then return slots only.
TrueNamesThenSlots(l, k) == Len(l) >= k /\ (\A i \in 1..k : ~IsReturnSlot(l[i])) /\ (\A i \in (k + 1)..Len(l) : IsReturnSlot(l[i]))

\* C12: when the raw list indexed for an identifier is k names that are no
\* return slots followed by zero or more return slots,
\* discoverParameterNames(identifier, k) returns exactly those k names in
\* order, with a nil error and no return slot among them.
C12_ReturnSlotsFiltered ==
    (last.op = "discoverParameterNames" /\ (\E key \in Range(generateFunctionKeyCandidates(last.out.funcName)) : key \in DOMAIN globalResolver.functionMap) /\ TrueNamesThenSlots(RawListFor(globalResolver, last.out.funcName), last.out.paramCount))
    => (Accepted /\ last.out.names = SubSeq(RawListFor(globalResolver, last.out.funcName), 1, last.out.paramCount) /\ \A i \in 1..Len(last.out.names) : ~IsReturnSlot(last.out.names[i]))

C12_Witness == last.op = "discoverParameterNames" /\ last.out.funcName = FullKey /\ RawListFor(globalResolver, FullKey) = <<NameOf.name, NameOf.r0, NameOf.r1>> /\ last.out.paramCount = 1 /\ last.out.names = <<NameOf.name>>

\* The positions, in generation order, of the candidate keys of an
\* identifier that are indexed with at least n entries.
Sufficient(dr, funcName, n) == {i \in 1..Len(generateFunctionKeyCandidates(funcName)) : generateFunctionKeyCandidates(funcName)[i] \in DOMAIN dr.functionMap /\ Len(dr.functionMap[generateFunctionKeyCandidates(funcName)[i]]) >= n}

\* The list indexed under the first of those candidates.
FirstSufficientList(dr, funcName, n) == dr.functionMap[generateFunctionKeyCandidates(funcName)[CHOOSE i \in Sufficient(dr, funcName, n) : \A j \in Sufficient(dr, funcName, n) : i <= j]]

\* C23: discoverParameterNames goes through the candidate keys in the
\* order they were generated, passing over a candidate that is not
\* indexed or whose list is shorter than the expected count; the first
\* candidate with a list of sufficient length gives the names, and the
\* lookup fails, with no names, only when there is no such candidate.
C23_FirstSufficientCandidate ==
    last.op = "discoverParameterNames" =>
        IF Sufficient(globalResolver, last.out.funcName, last.out.paramCount) = {}
        THEN last.err # "nil" /\ last.out.names = <<>>
        ELSE last.err = "nil" /\ Len(last.out.names) = last.out.paramCount /\ \A i \in 1..last.out.paramCount : last.out.names[i] = FirstSufficientList(globalResolver, last.out.funcName, last.out.paramCount)[i]

C23_Witness == last.op = "discoverParameterNames" /\ last.out.funcName = FullKey /\ last.out.paramCount = 3 /\ FullKey \in DOMAIN globalResolver.functionMap /\ Len(globalResolver.functionMap[FullKey]) = 2 /\ last.err = "nil" /\ last.out.names = <<NameOf.x, NameOf.y, NameOf.r0>>

\* The lookup without any filter: the first expectedCount entries of the
\* first candidate list that has as many.
RECURSIVE PrefixTruncation(_, _, _)
PrefixTruncation(functionMap, candidates, n) ==
    IF candidates = <<>> THEN <<>>
    ELSE IF Head(candidates) \in DOMAIN functionMap /\ Len(functionMap[Head(candidates)]) >= n THEN SubSeq(functionMap[Head(candidates)], 1, n)
    ELSE PrefixTruncation(functionMap, Tail(candidates), n)

\* C28: the return-slot filter never changes what discoverParameterNames
\* returns: a successful lookup returns the first expectedCount entries of
\* the first candidate list of sufficient length exactly as indexed,
\* return-slot names among them included, and a lookup succeeds whenever
\* there is such a list, whatever the filter made of it.
C28_FilterChangesNothing ==
    (last.op = "discoverParameterNames" /\ Sufficient(globalResolver, last.out.funcName, last.out.paramCount) # {}) =>
        /\ Accepted
        /\ last.out.names = SubSeq(FirstSufficientList(globalResolver, last.out.funcName, last.out.paramCount), 1, last.out.paramCount)
        /\ last.out.names = PrefixTruncation(globalResolver.functionMap, generateFunctionKeyCandidates(last.out.funcName), last.out.paramCount)

C28_Witness == last.op = "discoverParameterNames" /\ Accepted /\ last.out.paramCount = 3 /\ last.out.names = <<NameOf.name, NameOf.r0, NameOf.age>> /\ Len(validParamsFrom(last.out.names, 1, 3, <<>>)) = 1

\* C26: for an identifier one of whose candidate keys is indexed,
\* DebugDWARFParameters returns, with a nil error, the indexed list as
\* allParams and a prefix of it as inputParams; when the list has a name
\* starting with "~r", inputParams is strictly shorter than allParams and
\* has no such name; for an identifier that is not indexed it returns an
\* error.
C26_InputParamsArePrefixWithoutSlots ==
    (last.op = "DebugDWARFParameters" /\ resolverInitErr = "nil") =>
        IF \E key \in Range(generateFunctionKeyCandidates(last.out.funcName)) : key \in DOMAIN globalResolver.functionMap
        THEN /\ last.err = "nil"
             /\ last.out.allParams = RawListFor(globalResolver, last.out.funcName)
             /\ Len(last.out.inputParams) <= Len(last.out.allParams) /\ last.out.inputParams = SubSeq(last.out.allParams, 1, Len(last.out.inputParams))
             /\ (\E i \in 1..Len(last.out.allParams) : IsReturnSlot(last.out.allParams[i])) => (Len(last.out.inputParams) < Len(last.out.allParams) /\ \A i \in 1..Len(last.out.inputParams) : ~IsReturnSlot(last.out.inputParams[i]))
        ELSE last.err # "nil"

-----------------------------------------------------------------------------
(* Properties of the one-time build *)

PastGate(g) == callers[g].pc \in {"after", "done"}

Building(g) == callers[g].pc \in {"initResolver", "loadDWARFData", "deferred"}

\* C13: however the first calls of NewFunction, GetDWARFStatus,
\* DebugDWARFParameters and GetAllDWARFFunctions interleave, initResolver
\* runs at most once and exactly once before any caller is past the gate;
\* no caller is past the gate while the build is still running; and all
\* callers read the same outcome, the finished build's index or its
\* error, equal operations handing back equal results.
C13_BuildOnceSameOutcome ==
    /\ builds <= 1
    /\ \A g \in Goroutines : PastGate(g) => (resolverOnce /\ builds = 1 /\ \A h \in Goroutines : ~Building(h))
    /\ \A g \in Goroutines : callers[g].pc = "done" =>
           /\ callers[g].call.out.initErr = initResolver(executable).err
           /\ callers[g].call.out.dr = initResolver(executable).dr
           /\ callers[g].call.out.dr = globalResolver /\ callers[g].call.out.initErr = resolverInitErr
    /\ \A g, h \in Goroutines : (callers[g].pc = "done" /\ callers[h].pc = "done") =>
           /\ callers[g].call.out.initErr = callers[h].call.out.initErr
           /\ callers[g].call.out.dr = callers[h].call.out.dr
           /\ (callers[g].call.op = callers[h].call.op /\ callers[g].call.args = callers[h].call.args) => callers[g].call.out.result = callers[h].call.out.result

C13_Witness == (\A g \in Goroutines : callers[g].pc = "done") /\ builds = 1 /\ callers[1].call.op = "NewFunction" /\ callers[1].call.out.result.fn.valid /\ callers[2].call.op = "GetAllDWARFFunctions" /\ DOMAIN callers[2].call.out.result.m = DOMAIN globalResolver.functionMap /\ Cardinality(DOMAIN globalResolver.functionMap) > 1

C15_DescriptorOrError ==
    last.op = "NewFunction" =>
        /\ last.outcome = "return"
        /\ (fn.valid /\ fn.function = last.args[1] /\ last.err = "nil") \/ (~fn.valid /\ last.err # "nil")
        /\ ValueOf(last.args[1]).typ.kind # "func" => (~fn.valid /\ last.err # "nil")

-----------------------------------------------------------------------------
(* Properties of format detection and of candidate keys *)

\* The format whose magic number a file of at least four bytes begins
\* with; FormatUnknown for every other file.
FormatOfMagic(bytes) ==
    IF Len(bytes) < 4 THEN FormatUnknown
    ELSE IF SubSeq(bytes, 1, 4) = <<127, 69, 76, 70>> THEN FormatELF
    ELSE IF SubSeq(bytes, 1, 2) = <<77, 90>> THEN FormatPE
    ELSE IF SubSeq(bytes, 1, 4) \in {<<254, 237, 250, 206>>, <<206, 250, 237, 254>>, <<254, 237, 250, 207>>, <<207, 250, 237, 254>>} THEN FormatMachO
    ELSE FormatUnknown

\* C16: DetectExecutableFormat returns ELF, PE or MachO with a nil error
\* only for a readable file whose first four bytes match that format's
\* magic number, and FormatUnknown with an error for every other file:
\* one that cannot be opened, one shorter than four bytes, one whose
\* bytes match nothing.
C16_MagicMatchOnly ==
    last.op = "DetectExecutableFormat" =>
        LET want == IF executable.pathOK THEN FormatOfMagic(executable.bytes) ELSE FormatUnknown
        IN /\ last.out.format = want
           /\ (want = FormatUnknown) <=> (last.err # "nil")

\* The text after the last "/" of an identifier that has one.
AfterLastSlash(id) == LET i == CHOOSE i \in 1..Len(id) : id[i] = "/" /\ \A j \in (i + 1)..Len(id) : id[j] # "/" IN SubSeq(id, i + 1, Len(id))

HasSlash(id) == \E i \in 1..Len(id) : id[i] = "/"

HasPointerReceiverMarker(id) == \E i \in 1..(Len(id) - 1) : id[i] = "(" /\ id[i + 1] = "*"

\* C19: the candidate keys of an identifier depend on the identifier
\* alone. The first is the identifier as given; if the identifier has a
\* "/", the text after its last "/" is among them; if it has the
\* pointer-receiver marker "(*", its form without the path prefix (the
\* text after the last "/", the identifier itself where there is none) is
\* among them; with no "/" and no "(*" the identifier is the only one.
C19_CandidateKeys ==
    last.op = "generateFunctionKeyCandidates" =>
        LET id == last.out.runtimeName
            candidates == last.out.candidates
        IN /\ Len(candidates) >= 1 /\ candidates[1] = id
           /\ HasSlash(id) => AfterLastSlash(id) \in Range(candidates)
           /\ HasPointerReceiverMarker(id) => (IF HasSlash(id) THEN AfterLastSlash(id) ELSE id) \in Range(candidates)
           /\ (~HasSlash(id) /\ ~HasPointerReceiverMarker(id)) => candidates = <<id>>

C19_Witness == last.op = "generateFunctionKeyCandidates" /\ last.out.runtimeName = <<"p", "/", "(", "*">> /\ last.out.candidates[2] = <<"(", "*">>

-----------------------------------------------------------------------------
(* Properties of the diagnostic dump *)

\* C17: the map GetAllDWARFFunctions hands back is never nil, is empty
\* when the build failed and else holds every indexed identifier with its
\* list; whatever the caller deletes, adds, overwrites or writes into a
\* list of a map it was handed, the index stays what the build made it,
\* so every later dump and every later NewFunction is what it would have
\* been without the writes.
C17_DumpIsDeepCopy ==
    /\ resolverOnce => globalResolver = initResolver(executable).dr
    /\ last.op = "GetAllDWARFFunctions" =>
           /\ ~last.out.isNil
           /\ last.args = <<>> => last.out.m = (IF initResolver(executable).err # "nil" THEN EmptyMap ELSE initResolver(executable).dr.functionMap)
    /\ last.op = "NewFunction" =>
           LET r == NewFunctionBody(initResolver(executable).dr, initResolver(executable).err, last.args[1])
           IN last.outcome = r.outcome /\ last.err = r.err /\ (r.outcome = "return" => fn = r.fn)

C17_Witness == last.op = "GetAllDWARFFunctions" /\ last.args = <<"write">> /\ FullKey \in DOMAIN last.out.m /\ FullKey \in DOMAIN globalResolver.functionMap /\ last.out.m[FullKey] # globalResolver.functionMap[FullKey] /\ PkgPrefix \o <<"nosuch">> \in DOMAIN last.out.m /\ fn.valid

-----------------------------------------------------------------------------
(* Properties of the descriptor under invocation *)

\* C18: while a goroutine is in an invocation of any style and after the
\* invocation has returned, with a result or an error and however the
\* invocations of the other goroutines interleave with it, the descriptor
\* has the parameter names, parameter types, record type, function name
\* and package path it had when the invocation began, and the argument
\* list, map and record the caller supplied are what the caller supplied.
C18_InvocationLeavesDescriptorAndInputs ==
    \A g \in Goroutines : callers[g].pc \in {"invoking", "done"} =>
        /\ fn.paramNames = callers[g].held.paramNames
        /\ fn.paramTypes = callers[g].held.paramTypes
        /\ fn.structType = callers[g].held.structType
        /\ fn.funcName = callers[g].held.funcName
        /\ fn.packagePath = callers[g].held.packagePath
        /\ callers[g].call.argMap = callers[g].call.out.given.argMap
        /\ callers[g].call.argStruct = callers[g].call.out.given.argStruct
        /\ callers[g].call.args = callers[g].call.out.given.args

C18_Witness == callers[1].pc = "done" /\ callers[1].call.op = "CallWithMap" /\ callers[1].call.outcome = "return" /\ callers[1].call.err = "nil" /\ callers[2].pc = "done" /\ callers[2].call.op = "CallWithStruct" /\ callers[2].call.err # "nil" /\ fn.funcName = TestFuncs[4].name

-----------------------------------------------------------------------------
(* Properties of the descriptor's record type *)

\* C20, as the specification has it: after a successful construction the
\* descriptor's record type has not yet been synthesized.
C20_RecordTypeNotYetSynthesized == (last.op = "NewFunction" /\ Accepted) => fn.structType = NoType

\* C20, amended: the record type is synthesized once, during
\* construction. From the moment NewFunction has returned the descriptor
\* it holds the struct type of its names and types, and every request
\* uses that stored type: GetStructType returns it, NewParams makes a
\* record of it, and CallWithStruct accepts records of it only.
C20_RecordTypeSynthesizedAtConstruction ==
    fn.valid =>
        /\ fn.structType # NoType
        /\ fn.structType = createStructType(fn.paramNames, fn.paramTypes)
        /\ GetStructType(fn) = createStructType(fn.paramNames, fn.paramTypes)
        /\ NewParams(fn, <<>>).type = createStructType(fn.paramNames, fn.paramTypes)
        /\ (last.op = "CallWithStruct" /\ Accepted) => ElemType(last.argStruct) = createStructType(fn.paramNames, fn.paramTypes)

C20_Witness == last.op = "CallWithStruct" /\ Accepted /\ Len(fn.paramNames) = 2 /\ last.argStruct.type = PtrTo(GetStructType(fn)) /\ Len(GetStructType(fn).fields) = 2

-----------------------------------------------------------------------------
(* Properties of the index build *)

\* The names of the formal-parameter records that are children of the
\* record whose first child stands at pos: those at depth 0 below it, up
\* to the end-of-children marker that closes it.
RECURSIVE ImmediateFormals(_, _, _, _)
ImmediateFormals(entries, pos, depth, acc) ==
    IF pos > Len(entries) \/ entries[pos].Tag = "Err" THEN acc
    ELSE LET e == entries[pos] IN
         IF e.Tag = "Null" THEN (IF depth = 0 THEN acc ELSE ImmediateFormals(entries, pos + 1, depth - 1, acc))
         ELSE ImmediateFormals(entries, pos + 1, depth + (IF e.Children THEN 1 ELSE 0), IF e.Tag = "FormalParameter" /\ e.HasName /\ depth = 0 THEN Append(acc, e.Name) ELSE acc)

\* The subprogram records that get an entry: identifier not empty,
\* children flag set.
IndexedSubprograms(entries) == {p \in 1..Len(entries) : entries[p].Tag = "Subprogram" /\ entries[p].HasName /\ entries[p].Name # <<>> /\ entries[p].Children}

ReadFails(entries) == \E p \in 1..Len(entries) : entries[p].Tag = "Err"

\* C21: once the index is built from a debug tree that reads without
\* failure, it holds, for every subprogram record with a non-empty
\* identifier and the children flag, exactly the names of the formal
\* parameters immediately nested in that record, in tree order, those
\* inside a nested child left out and those after a nested child kept;
\* and it holds no other identifier.
C21_ImmediateFormalsIndexed ==
    (resolverOnce /\ resolverInitErr = "nil" /\ ~ReadFails(executable.entries)) =>
        /\ \A p \in IndexedSubprograms(executable.entries) : executable.entries[p].Name \in DOMAIN globalResolver.functionMap /\ globalResolver.functionMap[executable.entries[p].Name] = ImmediateFormals(executable.entries, p + 1, 0, <<>>)
        /\ DOMAIN globalResolver.functionMap = {executable.entries[p].Name : p \in IndexedSubprograms(executable.entries)}

\* C22: when reading a debug record fails anywhere in the pass, the
\* build reports a failure: the cached init error is set, and the build
\* never counts as a success with the index made of the records read
\* before the failure.
C22_ReadFailureReported == (resolverOnce /\ executable.hasDWARF /\ ReadFails(executable.entries)) => resolverInitErr # "nil"

-----------------------------------------------------------------------------
(* Properties of struct-type compatibility *)

\* Field names and field types of a type, position by position.
NamesAndTypes(t) == [i \in 1..Len(t.fields) |-> <<t.fields[i].Name, t.fields[i].Type>>]

\* C24: structTypesCompatible(t1, t2) is true exactly when both types are
\* structs with the same number of fields and the same field name and
\* field type at every position; two types that differ in tags only get
\* the answer they would get without tags; the answer is false when
\* either type is no struct, true for a struct type and itself, and the
\* same with the arguments exchanged.
C24_CompatibleIffSameNamesAndTypes ==
    last.op = "structTypesCompatible" =>
        LET t1 == last.out.t1
            t2 == last.out.t2
        IN /\ last.out.compatible <=> (t1.kind = "struct" /\ t2.kind = "struct" /\ Len(t1.fields) = Len(t2.fields) /\ NamesAndTypes(t1) = NamesAndTypes(t2))
           /\ (t1.kind # "struct" \/ t2.kind # "struct") => ~last.out.compatible
           /\ (t1.kind = "struct" /\ t1 = t2) => last.out.compatible
           /\ last.out.converse = last.out.compatible

C24_Witness == last.op = "structTypesCompatible" /\ last.out.compatible /\ Len(last.out.t1.fields) = 2 /\ last.out.t1.fields[1].Tag # last.out.t2.fields[1].Tag /\ last.out.t1.fields[2].Tag = <<"json">>

\* C25: GetDWARFStatus reports available with the number of indexed
\* functions and a nil error exactly when the one-time build succeeded,
\* and not available, zero and an error otherwise; and whenever it
\* reports available, the number it reports is greater than zero.
C25_StatusMatchesBuild ==
    last.op = "GetDWARFStatus" =>
        /\ IF resolverInitErr = "nil"
           THEN last.out.available /\ last.out.funcCount = Cardinality(DOMAIN globalResolver.functionMap) /\ last.err = "nil"
           ELSE ~last.out.available /\ last.out.funcCount = 0 /\ last.err # "nil"
        /\ last.out.available => last.out.funcCount > 0

-----------------------------------------------------------------------------
(* Properties of the index after the build *)

\* C27: once the one-time build has completed, no step of the program,
\* be it NewFunction, an invocation of any style, GetDWARFStatus,
\* DebugDWARFParameters, GetAllDWARFFunctions or TestDWARFExtraction,
\* changes the resolver or any entry of its index.
C27_IndexNeverChanges == [][resolverOnce => (globalResolver' = globalResolver /\ resolverInitErr' = resolverInitErr /\ resolverOnce')]_vars

C27_Witness == last.op = "TestDWARFExtraction" /\ resolverOnce /\ fn.valid /\ last.err = "nil" /\ last.out.count = Cardinality(DOMAIN globalResolver.functionMap) /\ last.out.count > 1

-----------------------------------------------------------------------------
(* Properties of validation *)

\* C29: no invocation style aborts: whatever the arguments, an untyped
\* nil in the list of Call, a nil value in the map of CallWithMap, a nil
\* context handed to CallWithContext, a nil record handed to
\* CallWithStruct among them, the operation returns, with an error and
\* the wrapped function not entered, or with the results of the wrapped
\* function.
C29_ValidationNeverAborts ==
    last.op \in {"Call", "CallWithReflect", "CallWithStruct", "CallWithMap", "MapToArgs", "CallWithContext", "CallWithNonContextStructAndContext"} =>
        /\ last.outcome = "return"
        /\ last.err # "nil" => last.invoked = <<>>

\* A record of the type NewParams or NewParamsPtr builds under some options.
MadeWithOptions(rec, t) == \E o \in OptionLists : Len(o) > 0 /\ RecordOf(rec, GetStructTypeWithOptions(t, o[1]))

\* C30: a record made by NewParams or NewParamsPtr with a StructOptions
\* argument is accepted by CallWithStruct only if its type, tags included,
\* is the default synthesized type; with at least one parameter, the record
\* of the empty StructOptions{} has no tags, the default type has the
\* json/param tags, the two types differ, and the record is rejected with
\* the struct-type-mismatch error.
C30_OptionRecordsNeedDefaultType ==
    (last.op = "CallWithStruct" /\ MadeWithOptions(last.argStruct, fn)) =>
        /\ Accepted => ElemType(last.argStruct) = GetStructType(fn)
        /\ (Len(fn.paramNames) > 0 /\ RecordOf(last.argStruct, GetStructTypeWithOptions(fn, StructOptions("nil", "nil")))) =>
               /\ \A i \in 1..Len(ElemType(last.argStruct).fields) : ElemType(last.argStruct).fields[i].Tag = <<>>
               /\ \A i \in 1..Len(GetStructType(fn).fields) : GetStructType(fn).fields[i].Tag = DefaultTag(fn.paramNames[i])
               /\ ElemType(last.argStruct) # GetStructType(fn)
               /\ Rejected /\ last.err = "struct type mismatch"

C30_Witness == last.op = "CallWithStruct" /\ Len(fn.paramNames) > 1 /\ last.argStruct = [NewParamsPtr(fn, <<StructOptions("nil", "nil")>>) EXCEPT !.fields = last.argStruct.fields] /\ last.argStruct.val # "nil" /\ Rejected /\ last.err = "struct type mismatch"

====
